---- MODULE Spec2Model ----
(***************************************************************************)
(* Nihongo Quest: the progression / persistence core.                      *)
(*                                                                         *)
(*   save_system.py   SaveStore: save_game, load_game, _validate_save_data *)
(*   progression.py   SRSItem.record_answer, get_due_items, the XP curve   *)
(*                    recommend_next_lesson, the completion percentage     *)
(*   game_manager.py  GameManager: states, play time, progress, unlocking  *)
(*                                                                         *)
(* Each subsystem has its own specification over the shared variables:     *)
(*   Spec      the save store of one slot, step by step, with crashes and  *)
(*             I/O faults                                                   *)
(*   SRSSpec   one SRSItem under record_answer                              *)
(*   XPSpec    the level curve and award_xp on a loaded record             *)
(*   GMSpec    the GameManager's record and its unlock queries             *)
(*   ProgressSpec  the GameManager's four progress helpers                 *)
(*   DueSpec   get_due_items over a store of SRS items as the clock runs   *)
(*   StateSpec the GameManager's state machine and its enter-callbacks     *)
(*   PlaySpec  the session play time under transitions, loads and flushes  *)
(*   SlotSpec  the save store's functions called with any slot argument    *)
(*   TrackerSpec  recommend_next_lesson and the completion percentage      *)
(***************************************************************************)
EXTENDS Integers, Sequences, FiniteSets, TLC

VARIABLES
    \* ---- save store (save_system.py), the files of one slot ----
    slot,       \* the slot argument the calls are made with
    primary,    \* save_slot_<n>.json
    backup,     \* save_slot_<n>.bak.json
    tmp,        \* save_slot_<n>.json.tmp
    pc,         \* where the running save_game / load_game call stands
    caller,     \* who entered save_game: "save" (the application) or "load"
    data,       \* the dict save_game was handed (mutated in place)
    now,        \* the clock last_played is stamped from
    ret,        \* what the last finished call returned
    arg,        \* history: the record the application last passed to save_game;
                \* a load keeps it only when it follows that save's True
    pre,        \* history: primary and backup when the current call began
    target,     \* history: the document the current save_game is writing
    fault,      \* history: an I/O fault hit the current call
    \* ---- SRSItem (progression.py) ----
    item,       \* the SRSItem's fields
    call,       \* history: the last record_answer call and the item before it
    run,        \* history: correct answers so far, while the item came fresh
                \* and every call was correct with one threshold (else -1)
    \* ---- due items (progression.py) ----
    chars,      \* the tracker's mastered_characters: per script, the entries
                \* (item id, stored info) in the dict's insertion order
    clock,      \* time.time()
    dueOut,     \* what the last get_due_items call returned
    \* ---- XP (progression.py) ----
    curve,      \* xp_required_for_level's loop: its sums, level by level
    xpData,     \* the save-data dict the ProgressionTracker holds
    xpOut,      \* what the last award_xp / level query returned
    \* ---- GameManager (game_manager.py) ----
    gmSave,     \* _save_data: a record or None
    gmOut,      \* what the last is_monument_unlocked query returned
    \* ---- GameManager's state machine and session clock ----
    gs,         \* _current_state, _previous_state, _session_start,
                \* _session_paused_at, _accumulated_pause_time
    cbs,        \* _state_callbacks: per state, the callbacks in the order
                \* they were registered
    gsOut,      \* history: the last call, the fields before it, the
                \* callbacks it invoked and whether it raised
    played      \* history: the seconds not paused since the session began,
                \* since the record was loaded, and total_play_time then

saveVars == <<slot, primary, backup, tmp, pc, caller, data, now, ret, arg, pre,
              target, fault>>
srsVars  == <<item, call, run>>
dueVars  == <<chars, clock, dueOut>>
gsVars   == <<gs, cbs, gsOut, played>>
xpVars   == <<curve, xpData, xpOut>>
gmVars   == <<gmSave, gmOut>>
vars     == <<saveVars, srsVars, dueVars, xpVars, gmVars, gsVars>>

(***************************************************************************)
(* Bounds of the model.                                                    *)
(***************************************************************************)
MaxStamps  == 2     \* save_game calls (healing re-saves included) per run
MaxK       == 3     \* thresholds consecutive_to_master tried: 1..MaxK
MaxAnswers == 10    \* record_answer calls per run
MaxXp      == 400   \* award_xp is not called once player_xp exceeds this
MaxClock   == 3     \* the clock's last reading
MaxLimit   == 3     \* get_due_items limits tried: 0..MaxLimit
MaxCallbacks == 2   \* callbacks registered for one state

(***************************************************************************)
(* Python values as they matter to json.dump / json.load and to the        *)
(* isinstance tests of _validate_save_data.                                *)
(***************************************************************************)
IntV(n)    == [t |-> "int", v |-> n]
FloatV(n)  == [t |-> "float", v |-> n]
StrV(s)    == [t |-> "str", s |-> s]
IsoV(n)    == [t |-> "str", iso |-> n]       \* an ISO-8601 time stamp
NullV      == [t |-> "null"]
ListV(q)   == [t |-> "list", items |-> q]
TupleV(q)  == [t |-> "tuple", items |-> q]
SetV(q)    == [t |-> "set", items |-> q]
DictV(f)   == [t |-> "dict", sub |-> f]
EmptyMap   == [k \in {} |-> NullV]
NoRec      == [t |-> "none"]                  \* Python's None / no dict

IsDict(x)   == x.t = "dict"
IsList(x)   == x.t = "list"
IsInt(x)    == x.t = "int"
IsNumber(x) == x.t \in {"int", "float"}

Scripts  == {"hiragana", "katakana", "kanji"}
ListKeys == {"completed_lessons", "completed_minigames",
             "vocabulary_learned", "grammar_learned"}

MAX_SAVE_SLOTS == 6

DEFAULT_DIFFICULTY == "normal"

DefaultAppearance ==
    DictV([body_type |-> StrV("average"), hair_style |-> StrV("short"),
           hair_color |-> StrV("black"), eye_color |-> StrV("brown"),
           skin_tone |-> StrV("medium"), outfit_style |-> StrV("casual")])

DefaultSaveData(s) ==
    [slot                 |-> s,
     player_name          |-> StrV(""),
     character_appearance |-> DefaultAppearance,
     current_monument     |-> IntV(0),
     completed_lessons    |-> ListV(<<>>),
     completed_minigames  |-> ListV(<<>>),
     mastered_characters  |-> DictV([sc \in Scripts |-> DictV(EmptyMap)]),
     vocabulary_learned   |-> ListV(<<>>),
     grammar_learned      |-> ListV(<<>>),
     total_play_time      |-> FloatV(0),
     last_played          |-> NullV,
     difficulty           |-> StrV(DEFAULT_DIFFICULTY)]

\* A slot check without the upper limit.
ValidSlotNoUpper(s) == IsInt(s) /\ s.v >= 1

\* _validate_slot, line 77: true when no ValueError is raised
ValidSlot(s) == IsInt(s) /\ s.v >= 1 /\ s.v <= MAX_SAVE_SLOTS

\* A validator that repairs nothing: the document goes back as it was read.
ValidateNoFill(d, s) == d

(***************************************************************************)
(* _validate_save_data: fill the missing keys from the template, repair    *)
(* mastered_characters, the four lists and the two numbers, force slot.    *)
(***************************************************************************)
ValidateSaveData(d, s) ==
    LET template == DefaultSaveData(s)
        filled == [k \in DOMAIN d \cup DOMAIN template |->
                     IF k \in DOMAIN d THEN d[k] ELSE template[k]]
        mc == filled["mastered_characters"]
        mcFixed ==
            IF ~IsDict(mc) THEN template["mastered_characters"]
            ELSE DictV([sc \in DOMAIN mc.sub \cup Scripts |->
                          IF sc \in Scripts
                             /\ (sc \notin DOMAIN mc.sub \/ ~IsDict(mc.sub[sc]))
                          THEN DictV(EmptyMap) ELSE mc.sub[sc]])
    IN  [k \in DOMAIN filled |->
           CASE k = "mastered_characters" -> mcFixed
             [] k \in ListKeys ->
                  IF IsList(filled[k]) THEN filled[k] ELSE ListV(<<>>)
             [] k = "total_play_time" ->
                  IF IsNumber(filled[k]) THEN filled[k] ELSE FloatV(0)
             [] k = "current_monument" ->
                  IF IsInt(filled[k]) THEN filled[k] ELSE IntV(0)
             [] k = "slot" -> s
             [] OTHER -> filled[k]]

(***************************************************************************)
(* json.dump / json.load.  A tuple is written as an array and so comes     *)
(* back a list; a set is not serialisable (TypeError); everything else     *)
(* that the model holds is written and read back as it is.                 *)
(***************************************************************************)
RECURSIVE Serializable(_)
Serializable(x) ==
    CASE x.t = "set"  -> FALSE
      [] x.t = "dict" -> \A k \in DOMAIN x.sub : Serializable(x.sub[k])
      [] OTHER        -> TRUE

RECURSIVE JsonValue(_)
JsonValue(x) ==
    CASE x.t = "tuple" -> ListV(x.items)
      [] x.t = "dict"  -> DictV([k \in DOMAIN x.sub |-> JsonValue(x.sub[k])])
      [] OTHER         -> x

\* What a file holds.
Absent    == [kind |-> "absent"]
Garbage   == [kind |-> "garbage"]     \* bytes that are not JSON
NonObject == [kind |-> "nonobject"]   \* JSON whose top level is not an object
Partial   == [kind |-> "partial"]     \* a write that did not finish
Obj(d)    == [kind |-> "object", doc |-> d]

IsFile(f) == f.kind # "absent"

\* json.dump(data, fh) run to its end
JsonDump(d) == Obj([k \in DOMAIN d |-> JsonValue(d[k])])

DictSerializable(d) == \A k \in DOMAIN d : Serializable(d[k])

\* A load that turns away a document lacking a field of the template.
ParseFileStrict(f, s) ==
    IF f.kind = "object" /\ DOMAIN DefaultSaveData(s) \subseteq DOMAIN f.doc
    THEN ValidateSaveData(f.doc, s) ELSE NoRec

\* load_game's try body on one file: the dict it yields, or NoRec when
\* json.load or the isinstance test raises.
ParseFile(f, s) ==
    IF f.kind = "object" THEN ValidateSaveData(f.doc, s) ELSE NoRec

(***************************************************************************)
(* The records and files the model draws its inputs from.                  *)
(***************************************************************************)
LearningItem == DictV([stage |-> StrV("learning"), consecutive |-> IntV(2)])

\* A record as the game holds it after some play.
GoodRecord(s) ==
    [slot                 |-> s,
     player_name          |-> StrV("Aki"),
     character_appearance |-> DefaultAppearance,
     current_monument     |-> IntV(1),
     completed_lessons    |-> ListV(<<"hiragana_lesson_1">>),
     completed_minigames  |-> ListV(<<"hiragana_minigame_1">>),
     mastered_characters  |->
         DictV([sc \in Scripts |->
                  IF sc = "hiragana" THEN DictV([a |-> LearningItem])
                  ELSE DictV(EmptyMap)]),
     vocabulary_learned   |-> ListV(<<>>),
     grammar_learned      |-> ListV(<<"wa">>),
     total_play_time      |-> FloatV(12),
     last_played          |-> IsoV(0),
     difficulty           |-> StrV("hard"),
     player_xp            |-> IntV(104),
     player_level         |-> IntV(2)]

OtherSlot(s) == IF s = IntV(MAX_SAVE_SLOTS) THEN IntV(1) ELSE IntV(s.v + 1)

\* The dicts save_game is called with: the good record, records that lack
\* fields, and records holding values of other types than the data model's.
SaveRecords(s) ==
    LET g == GoodRecord(s) IN
    { g,
      [k \in {"player_name", "difficulty"} |-> g[k]],
      [g EXCEPT !["mastered_characters"] =
                  DictV([hiragana |-> DictV([a |-> LearningItem])])],
      [g EXCEPT !["slot"] = OtherSlot(s),
                !["current_monument"] = StrV("3"),
                !["completed_lessons"] = StrV("hiragana_lesson_1"),
                !["total_play_time"] = NullV],
      [g EXCEPT !["character_appearance"] =
                  DictV([outfit_color |-> TupleV(<<"255", "0", "0">>)])],
      [g EXCEPT !["character_appearance"] =
                  DictV([tags |-> SetV(<<"a">>)])] }

\* The documents a file of the slot may hold before the run: a complete
\* save, a save of an older schema, and one whose fields have drifted.
FileDocs(s) ==
    LET g == GoodRecord(s) IN
    { g,
      [k \in {"player_name", "current_monument", "player_xp"} |-> g[k]],
      [g EXCEPT !["slot"] = OtherSlot(s),
                !["current_monument"] = IntV(99),
                !["completed_minigames"] = NullV,
                !["mastered_characters"] =
                    DictV([hiragana |-> ListV(<<>>)])] }

InitFiles(s) == {Absent, Garbage, NonObject} \cup {Obj(d) : d \in FileDocs(s)}

NoOut   == [op |-> "none"]
NoRet   == [op |-> "none", ok |-> FALSE, val |-> NoRec]
Running == [op |-> "running", ok |-> FALSE, val |-> NoRec]

\* the call ended in an exception that reached the caller
Raised(fn, exc) ==
    [op |-> "raised", ok |-> FALSE, val |-> NoRec, fn |-> fn, exc |-> exc]

(***************************************************************************)
(* save_game, one file-system effect per step.                             *)
(***************************************************************************)
\* lines 158-160: data["slot"] = slot; data["last_played"] = now
Stamp(d, s, t) ==
    [k \in DOMAIN d \cup {"slot", "last_played"} |->
       CASE k = "slot" -> s
         [] k = "last_played" -> IsoV(t)
         [] OTHER -> d[k]]

\* lines 152-160, entered by the application or by load_game's healing
SaveEnter(d, who) ==
    /\ now <= MaxStamps
    /\ ValidSlot(slot)
    /\ data' = Stamp(d, slot, now)
    /\ now' = now + 1
    /\ caller' = who
    /\ pc' = "s_backup"
    /\ target' = IF DictSerializable(Stamp(d, slot, now))
                 THEN JsonDump(Stamp(d, slot, now))
                 ELSE [kind |-> "unserialisable"]
    /\ pre' = [primary |-> primary, backup |-> backup]
    /\ fault' = FALSE
    /\ ret' = Running

\* save_game returns: to the application, or into load_game (line 230),
\* which returns the dict whatever save_game answered.
SaveReturn(ok) ==
    /\ pc' = "idle"
    /\ ret' = IF caller = "load"
              THEN [op |-> "load", ok |-> TRUE, val |-> data]
              ELSE IF caller = "create"
              THEN [op |-> "create", ok |-> TRUE, val |-> data]
              ELSE [op |-> "save", ok |-> ok, val |-> NoRec]
    /\ data' = NoRec
    /\ caller' = "none"

SaveBegin ==
    /\ pc = "idle"
    /\ \E r \in SaveRecords(slot) :
         /\ SaveEnter(r, "save")
         /\ arg' = r
    /\ UNCHANGED <<slot, primary, backup, tmp>>

\* line 153: os.makedirs fails with OSError (the save directory is not
\* there and cannot be made); the call is outside every try block
SaveMkdirFail ==
    /\ pc = "idle" /\ ValidSlot(slot)
    /\ ~IsFile(primary) /\ ~IsFile(backup) /\ ~IsFile(tmp)
    /\ \E r \in SaveRecords(slot) : arg' = r
    /\ ret' = Raised("save", "OSError")
    /\ pre' = [primary |-> primary, backup |-> backup]
    /\ target' = [kind |-> "nosave"]
    /\ fault' = TRUE
    /\ UNCHANGED <<slot, primary, backup, tmp, pc, caller, data, now>>

\* line 163: no primary, no backup copy
SaveBackupSkip ==
    /\ pc = "s_backup" /\ ~IsFile(primary)
    /\ pc' = "s_open"
    /\ UNCHANGED <<slot, primary, backup, tmp, caller, data, now, ret, arg,
                   pre, target, fault>>

\* line 165, shutil.copy2 opens the backup for writing ...
SaveBackupOpen ==
    /\ pc = "s_backup" /\ IsFile(primary)
    /\ backup' = Partial
    /\ pc' = "s_copy"
    /\ UNCHANGED <<slot, primary, tmp, caller, data, now, ret, arg, pre,
                   target, fault>>

\* ... and copies the primary into it
SaveBackupCopy ==
    /\ pc = "s_copy"
    /\ backup' = primary
    /\ pc' = "s_open"
    /\ UNCHANGED <<slot, primary, tmp, caller, data, now, ret, arg, pre,
                   target, fault>>

\* lines 166-167: the copy fails with OSError, before or after it opened
\* the backup; the save goes on
SaveBackupFail ==
    /\ pc \in {"s_backup", "s_copy"} /\ IsFile(primary)
    /\ pc' = "s_open"
    /\ fault' = TRUE
    /\ UNCHANGED <<slot, primary, backup, tmp, caller, data, now, ret, arg,
                   pre, target>>

\* A save that opens the primary itself for writing.
SaveOpenInPlace ==
    /\ pc = "s_open"
    /\ primary' = Partial
    /\ pc' = "s_dump"
    /\ UNCHANGED <<slot, backup, tmp, caller, data, now, ret, arg, pre,
                   target, fault>>

\* line 172: open(tmp_path, "w") creates or truncates the temp file
SaveOpenTmp ==
    /\ pc = "s_open"
    /\ tmp' = Partial
    /\ pc' = "s_dump"
    /\ UNCHANGED <<slot, primary, backup, caller, data, now, ret, arg, pre,
                   target, fault>>

SaveOpenTmpFail ==
    /\ pc = "s_open"
    /\ pc' = "s_cleanup"
    /\ fault' = TRUE
    /\ UNCHANGED <<slot, primary, backup, tmp, caller, data, now, ret, arg,
                   pre, target>>

\* line 173: json.dump writes the whole document, or raises TypeError on a
\* value it cannot serialise and leaves what it wrote so far
SaveDump ==
    /\ pc = "s_dump"
    /\ IF DictSerializable(data)
       THEN tmp' = JsonDump(data) /\ pc' = "s_replace"
       ELSE tmp' = Partial /\ pc' = "s_cleanup"
    /\ UNCHANGED <<slot, primary, backup, caller, data, now, ret, arg, pre,
                   target, fault>>

\* line 173 fails with OSError (disk full)
SaveDumpFail ==
    /\ pc = "s_dump"
    /\ pc' = "s_cleanup"
    /\ fault' = TRUE
    /\ UNCHANGED <<slot, primary, backup, tmp, caller, data, now, ret, arg,
                   pre, target>>

\* lines 176-178: os.replace(tmp_path, filepath); return True
SaveReplace ==
    /\ pc = "s_replace"
    /\ primary' = tmp
    /\ tmp' = Absent
    /\ SaveReturn(TRUE)
    /\ UNCHANGED <<slot, backup, now, arg, pre, target, fault>>

SaveReplaceFail ==
    /\ pc = "s_replace"
    /\ pc' = "s_cleanup"
    /\ fault' = TRUE
    /\ UNCHANGED <<slot, primary, backup, tmp, caller, data, now, ret, arg,
                   pre, target>>

\* lines 180-188: remove the temp file if it is there; return False
SaveCleanup ==
    /\ pc = "s_cleanup"
    /\ tmp' = Absent
    /\ SaveReturn(FALSE)
    /\ UNCHANGED <<slot, primary, backup, now, arg, pre, target, fault>>

\* lines 184-187: os.remove fails and is passed over
SaveCleanupFail ==
    /\ pc = "s_cleanup" /\ IsFile(tmp)
    /\ SaveReturn(FALSE)
    /\ fault' = TRUE
    /\ UNCHANGED <<slot, primary, backup, tmp, now, arg, pre, target>>

\* The process dies inside a call: the files stay as they are.
Crash ==
    /\ pc # "idle"
    /\ pc' = "idle"
    /\ data' = NoRec
    /\ caller' = "none"
    /\ ret' = [op |-> "crash", ok |-> FALSE, val |-> NoRec]
    /\ UNCHANGED <<slot, primary, backup, tmp, now, arg, pre, target, fault>>

(***************************************************************************)
(* load_game                                                               *)
(***************************************************************************)
\* lines 214-230 when the primary parses: validated and returned
LoadPrimary ==
    /\ pc = "idle" /\ ValidSlot(slot)
    /\ ParseFile(primary, slot) # NoRec
    /\ ret' = [op |-> "load", ok |-> TRUE, val |-> ParseFile(primary, slot)]
    /\ pre' = [primary |-> primary, backup |-> backup]
    /\ target' = [kind |-> "nosave"]
    /\ fault' = FALSE
    /\ arg' = IF ret.op = "save" /\ ret.ok THEN arg ELSE NoRec
    /\ UNCHANGED <<slot, primary, backup, tmp, pc, caller, data, now>>

\* A load that falls back to the backup and does not re-save it.
LoadBackupNoHeal ==
    /\ pc = "idle" /\ ValidSlot(slot)
    /\ ParseFile(primary, slot) = NoRec
    /\ ParseFile(backup, slot) # NoRec
    /\ ret' = [op |-> "load", ok |-> TRUE, val |-> ParseFile(backup, slot)]
    /\ pre' = [primary |-> primary, backup |-> backup]
    /\ target' = [kind |-> "nosave"]
    /\ fault' = FALSE
    /\ arg' = NoRec
    /\ UNCHANGED <<slot, primary, backup, tmp, pc, caller, data, now>>

\* lines 225-228: the primary is missing or corrupt and the backup parses:
\* save_game(slot, data) is entered with the validated backup
LoadBackup ==
    /\ pc = "idle"
    /\ ParseFile(primary, slot) = NoRec
    /\ ParseFile(backup, slot) # NoRec
    /\ SaveEnter(ParseFile(backup, slot), "load")
    /\ arg' = NoRec
    /\ UNCHANGED <<slot, primary, backup, tmp>>

\* line 218: open or read fails with OSError (permission denied) on the
\* first file load_game gets to; the except clause of line 232 does not
\* name OSError
LoadReadFail ==
    /\ pc = "idle" /\ ValidSlot(slot)
    /\ \/ IsFile(primary)
       \/ ParseFile(primary, slot) = NoRec /\ IsFile(backup)
    /\ ret' = Raised("load", "OSError")
    /\ pre' = [primary |-> primary, backup |-> backup]
    /\ target' = [kind |-> "nosave"]
    /\ fault' = TRUE
    /\ arg' = NoRec
    /\ UNCHANGED <<slot, primary, backup, tmp, pc, caller, data, now>>

\* lines 236-237: neither file parses
LoadNone ==
    /\ pc = "idle" /\ ValidSlot(slot)
    /\ ParseFile(primary, slot) = NoRec
    /\ ParseFile(backup, slot) = NoRec
    /\ ret' = [op |-> "load", ok |-> FALSE, val |-> NoRec]
    /\ pre' = [primary |-> primary, backup |-> backup]
    /\ target' = [kind |-> "nosave"]
    /\ fault' = FALSE
    /\ arg' = IF ret.op = "save" /\ ret.ok THEN arg ELSE NoRec
    /\ UNCHANGED <<slot, primary, backup, tmp, pc, caller, data, now>>

(***************************************************************************)
(* The five functions as they are called with any slot argument.           *)
(***************************************************************************)
\* _validate_slot raised ValueError (lines 78-80): nothing else happened
Rejected(fn) ==
    /\ ret' = Raised(fn, "ValueError")
    /\ pre' = [primary |-> primary, backup |-> backup]
    /\ fault' = FALSE
    /\ UNCHANGED <<slot, primary, backup, tmp, pc, caller, now, target>>

\* save_game(slot, r), lines 152-160
SlotSaveGame ==
    /\ pc = "idle"
    /\ IF ValidSlot(slot) THEN SaveBegin
       ELSE /\ Rejected("save_game")
            /\ \E r \in SaveRecords(IntV(MAX_SAVE_SLOTS)) :
                 arg' = r /\ data' = r

\* load_game(slot), lines 208-237
SlotLoadGame ==
    /\ pc = "idle"
    /\ IF ValidSlot(slot) THEN LoadPrimary \/ LoadBackup \/ LoadNone
       ELSE Rejected("load_game") /\ arg' = NoRec /\ data' = NoRec

\* delete_save(slot), lines 254-267; os.remove may fail on either file
SlotDeleteSave ==
    /\ pc = "idle"
    /\ IF ValidSlot(slot)
       THEN \E fail1, fail2 \in BOOLEAN :
              LET gone1 == IsFile(primary) /\ ~fail1
                  gone2 == IsFile(backup) /\ ~fail2
              IN  /\ primary' = IF gone1 THEN Absent ELSE primary
                  /\ backup' = IF gone2 THEN Absent ELSE backup
                  /\ ret' = [op |-> "delete", ok |-> gone1 \/ gone2,
                             val |-> NoRec]
                  /\ pre' = [primary |-> primary, backup |-> backup]
                  /\ fault' = ((IsFile(primary) /\ fail1)
                               \/ (IsFile(backup) /\ fail2))
                  /\ UNCHANGED <<slot, tmp, pc, caller, now, target>>
       ELSE Rejected("delete_save")
    /\ arg' = NoRec /\ data' = NoRec

\* does_save_exist(slot), lines 283-284
SlotDoesSaveExist ==
    /\ pc = "idle"
    /\ IF ValidSlot(slot)
       THEN /\ ret' = [op |-> "exists", ok |-> IsFile(primary), val |-> NoRec]
            /\ pre' = [primary |-> primary, backup |-> backup]
            /\ fault' = FALSE
            /\ UNCHANGED <<slot, primary, backup, tmp, pc, caller, now, target>>
       ELSE Rejected("does_save_exist")
    /\ arg' = NoRec /\ data' = NoRec

\* lines 329-332: the template with the three arguments put in
NewSaveData(s, player_name, character_appearance, difficulty) ==
    [DefaultSaveData(s) EXCEPT !["player_name"] = StrV(player_name),
                               !["character_appearance"] = character_appearance,
                               !["difficulty"] = StrV(difficulty)]

\* create_new_save(slot, ...), lines 327-335
SlotCreateNewSave ==
    /\ pc = "idle"
    /\ IF ValidSlot(slot)
       THEN /\ \E player_name \in {"Aki", ""}, difficulty \in {"easy"} :
                 LET fresh == NewSaveData(slot, player_name,
                                          DefaultAppearance, difficulty)
                 IN  SaveEnter(fresh, "create") /\ arg' = fresh
            /\ UNCHANGED <<slot, primary, backup, tmp>>
       ELSE Rejected("create_new_save") /\ arg' = NoRec /\ data' = NoRec

\* the slot arguments tried: the limits, numbers beyond them and values
\* that are not integers
SlotArgs ==
    {IntV(1), IntV(MAX_SAVE_SLOTS), IntV(0), IntV(MAX_SAVE_SLOTS + 1),
     IntV(-1), StrV("6"), FloatV(6), NullV}

SlotInit ==
    /\ slot \in SlotArgs
    /\ primary \in InitFiles(IntV(MAX_SAVE_SLOTS))
    /\ backup \in InitFiles(IntV(MAX_SAVE_SLOTS))
    /\ tmp = Absent
    /\ pc = "idle"
    /\ caller = "none"
    /\ data = NoRec
    /\ now = 1
    /\ ret = NoRet
    /\ arg = NoRec
    /\ pre = [primary |-> primary, backup |-> backup]
    /\ target = [kind |-> "nosave"]
    /\ fault = FALSE

SaveInit ==
    /\ slot = IntV(MAX_SAVE_SLOTS)
    /\ primary \in InitFiles(slot)
    /\ backup \in InitFiles(slot)
    /\ tmp = Absent
    /\ pc = "idle"
    /\ caller = "none"
    /\ data = NoRec
    /\ now = 1
    /\ ret = NoRet
    /\ arg = NoRec
    /\ pre = [primary |-> primary, backup |-> backup]
    /\ target = [kind |-> "nosave"]
    /\ fault = FALSE


(***************************************************************************)
(* SRSItem.record_answer (progression.py).  The stage and the counters     *)
(* do not depend on the time stamps, which are set from them at the end.   *)
(***************************************************************************)
Stage_NEW      == 0
Stage_LEARNING == 1
Stage_REVIEW   == 2
Stage_MASTERED == 3

\* SRSItem.__init__ with its defaults
FreshItem ==
    [stage |-> Stage_NEW, consecutive_correct |-> 0, total_correct |-> 0,
     total_attempts |-> 0, last_reviewed |-> 0, next_review |-> 0]

\* SRS_STAGES.get(STAGE_NAMES[stage], 0), config.py lines 276-281
BaseHours(stage) ==
    CASE stage = Stage_NEW -> 0
      [] stage = Stage_LEARNING -> 4
      [] stage = Stage_REVIEW -> 24
      [] stage = Stage_MASTERED -> 168
      [] OTHER -> 0

\* srs_interval_mult of the difficulties normal and hard, in tenths
SrsIntervalTenths == {10, 13}

\* record_answer without the test that the stage is below MASTERED
RecordAnswerUnbounded(it, correct, k) ==
    LET a == [it EXCEPT !.total_attempts = @ + 1] IN
    IF correct
    THEN LET b == [a EXCEPT !.total_correct = @ + 1,
                            !.consecutive_correct = @ + 1]
         IN  IF b.consecutive_correct >= k
             THEN [b EXCEPT !.stage = @ + 1, !.consecutive_correct = 0]
             ELSE b
    ELSE LET b == [a EXCEPT !.consecutive_correct = 0]
         IN  IF b.stage > Stage_NEW THEN [b EXCEPT !.stage = @ - 1] ELSE b

\* record_answer that keeps the streak when it promotes
RecordAnswerNoReset(it, correct, k) ==
    LET a == [it EXCEPT !.total_attempts = @ + 1] IN
    IF correct
    THEN LET b == [a EXCEPT !.total_correct = @ + 1,
                            !.consecutive_correct = @ + 1]
         IN  IF b.consecutive_correct >= k /\ b.stage < Stage_MASTERED
             THEN [b EXCEPT !.stage = @ + 1]
             ELSE b
    ELSE LET b == [a EXCEPT !.consecutive_correct = 0]
         IN  IF b.stage > Stage_NEW THEN [b EXCEPT !.stage = @ - 1] ELSE b

\* record_answer that sends a missed item back to NEW
RecordAnswerDropToNew(it, correct, k) ==
    LET a == [it EXCEPT !.total_attempts = @ + 1] IN
    IF correct
    THEN LET b == [a EXCEPT !.total_correct = @ + 1,
                            !.consecutive_correct = @ + 1]
         IN  IF b.consecutive_correct >= k /\ b.stage < Stage_MASTERED
             THEN [b EXCEPT !.stage = @ + 1, !.consecutive_correct = 0]
             ELSE b
    ELSE [a EXCEPT !.consecutive_correct = 0, !.stage = Stage_NEW]

\* lines 224-242
RecordAnswerItem(it, correct, k) ==
    LET a == [it EXCEPT !.total_attempts = @ + 1] IN
    IF correct
    THEN LET b == [a EXCEPT !.total_correct = @ + 1,
                            !.consecutive_correct = @ + 1]
         IN  IF b.consecutive_correct >= k /\ b.stage < Stage_MASTERED
             THEN [b EXCEPT !.stage = @ + 1, !.consecutive_correct = 0]
             ELSE b
    ELSE LET b == [a EXCEPT !.consecutive_correct = 0]
         IN  IF b.stage > Stage_NEW THEN [b EXCEPT !.stage = @ - 1] ELSE b

\* record_answer that takes the interval of the stage the item had
RecordAnswerAtOldStage(it, correct, k, t, mult) ==
    LET b == RecordAnswerItem(it, correct, k) IN
    [b EXCEPT !.last_reviewed = t,
              !.next_review = t + BaseHours(it.stage) * 360 * mult]

\* lines 223-249 at time t: the stamps are set from the stage as the
\* answer left it; mult is in tenths, so 3600 * mult is 360 * mult
RecordAnswerAt(it, correct, k, t, mult) ==
    LET b == RecordAnswerItem(it, correct, k) IN
    [b EXCEPT !.last_reviewed = t,
              !.next_review = t + BaseHours(b.stage) * 360 * mult]

NoCall ==
    [n |-> 0, correct |-> FALSE, k |-> 1, before |-> FreshItem, at |-> 0,
     mult |-> 10, fixed |-> TRUE]

\* one call of record_answer; the clock has stood still or gone on an
\* hour since the call before, up to MaxClock hours
RecordAnswer(correct, k) ==
    /\ call.n < MaxAnswers
    /\ \E t \in {call.at, call.at + 3600}, mult \in SrsIntervalTenths :
         /\ t <= MaxClock * 3600
         /\ item' = RecordAnswerAt(item, correct, k, t, mult)
         /\ call' = [n |-> call.n + 1, correct |-> correct, k |-> k,
                     before |-> item, at |-> t, mult |-> mult,
                     fixed |-> (call.n = 0 \/ (call.fixed /\ k = call.k))]
    /\ run' = IF run >= 0 /\ correct /\ (run = 0 \/ k = call.k)
              THEN run + 1 ELSE -1

RecordCorrect   == \E k \in 1..MaxK : RecordAnswer(TRUE, k)
RecordIncorrect == \E k \in 1..MaxK : RecordAnswer(FALSE, k)

SRSInit == item = FreshItem /\ call = NoCall /\ run = 0

(***************************************************************************)
(* ProgressionTracker.get_due_items (progression.py).  The stored dict of  *)
(* a script is held as the sequence of its entries in insertion order,     *)
(* which is the order the loop of line 344 meets them in.  The clock is    *)
(* read once per call: it does not move while the call runs.               *)
(***************************************************************************)
\* _stage_from_name, line 60
StageFromName(name) ==
    CASE name = "new"      -> Stage_NEW
      [] name = "learning" -> Stage_LEARNING
      [] name = "review"   -> Stage_REVIEW
      [] name = "mastered" -> Stage_MASTERED
      [] OTHER             -> Stage_NEW

\* SRSItem.from_dict, lines 190-199: the fields get_due_items reads
FromDict(item_id, info) ==
    [item_id |-> item_id,
     stage |-> StageFromName(IF "stage" \in DOMAIN info.sub
                             THEN info.sub["stage"].s ELSE "new"),
     next_review |-> IF "next_review" \in DOMAIN info.sub
                     THEN info.sub["next_review"].v ELSE 0]

\* SRSItem.is_due_for_review, lines 253-255
IsDueForReview(it, t) ==
    IF it.stage = Stage_NEW THEN TRUE ELSE t >= it.next_review

RECURSIVE InsertByNextReview(_, _)
\* it put behind every item whose next_review is not greater than its own
InsertByNextReview(q, it) ==
    IF q = <<>> THEN <<it>>
    ELSE IF Head(q).next_review <= it.next_review
         THEN <<Head(q)>> \o InsertByNextReview(Tail(q), it)
         ELSE <<it>> \o q

RECURSIVE SortByNextReview(_)
\* line 353: items.sort(key=lambda s: s.next_review), a stable sort
SortByNextReview(q) ==
    IF q = <<>> THEN <<>>
    ELSE InsertByNextReview(SortByNextReview(SubSeq(q, 1, Len(q) - 1)),
                            q[Len(q)])

\* items[:limit]
SliceTo(q, limit) ==
    IF limit >= 0
    THEN SubSeq(q, 1, IF limit < Len(q) THEN limit ELSE Len(q))
    ELSE SubSeq(q, 1, IF Len(q) + limit > 0 THEN Len(q) + limit ELSE 0)

\* lines 340-351: the due items of the script, in the order met
DueOf(mc, script, t) ==
    LET script_dict == IF script \in DOMAIN mc THEN mc[script] ELSE <<>>
        isDict(e) == IsDict(e.info)
        dicts == SelectSeq(script_dict, isDict)
        srs == [i \in 1..Len(dicts) |-> FromDict(dicts[i].id, dicts[i].info)]
        due(it) == IsDueForReview(it, t)
    IN  SelectSeq(srs, due)

\* a get_due_items that cuts the list before it sorts it
GetDueItemsCutFirst(mc, script, limit, t) ==
    SortByNextReview(SliceTo(DueOf(mc, script, t), limit))

\* lines 340-354
GetDueItems(mc, script, limit, t) ==
    SliceTo(SortByNextReview(DueOf(mc, script, t)), limit)

StoredItem(stage, next_review) ==
    DictV([stage |-> StrV(stage), next_review |-> IntV(next_review)])

\* The stored dicts the tracker is given: items of every stage, due and
\* not yet due, two with one next_review, an entry that is no dict, an
\* entry without next_review whose stage name is unknown; the same in
\* another order; and a record with no characters at all.
DueStores ==
    LET a == [id |-> "a", info |-> StoredItem("review", 2)]
        b == [id |-> "b", info |-> StoredItem("new", 3)]
        c == [id |-> "c", info |-> StoredItem("learning", 1)]
        d == [id |-> "d", info |-> StrV("mastered")]
        e == [id |-> "e", info |-> DictV([stage |-> StrV("expert")])]
        f == [id |-> "f", info |-> StoredItem("mastered", 1)]
        g == [id |-> "g", info |-> StoredItem("review", 0)]
    IN  { [hiragana |-> <<a, b, c, d, e, f>>, katakana |-> <<g>>],
          [hiragana |-> <<f, a, d, b, c>>, kanji |-> <<>>],
          [sc \in {} |-> <<>>] }

DueTick ==
    /\ clock < MaxClock
    /\ clock' = clock + 1
    /\ UNCHANGED <<chars, dueOut>>

DueQuery ==
    /\ \E script \in Scripts, limit \in 0..MaxLimit :
         dueOut' = [op |-> "due", script |-> script, limit |-> limit,
                    at |-> clock,
                    items |-> GetDueItems(chars, script, limit, clock)]
    /\ UNCHANGED <<chars, clock>>

DueInit == chars \in DueStores /\ clock = 0 /\ dueOut = NoOut

(***************************************************************************)
(* The XP curve (progression.py).  xp_required_for_level sums              *)
(* BASE * GROWTH ** (lv - 2) for lv in 2..level in floating point and      *)
(* rounds the sum up.  The loop is run once, pass by pass, up to           *)
(* MAX_PLAYER_LEVEL, and the rounded total after each pass is kept: it is  *)
(* what the function returns for that level.  GROWTH = 1.15 = 23/20, so    *)
(* every term is an integer over 20^100; the sum is computed here          *)
(* exactly, scaled by 20^100, in                                           *)
(* digits of radix 20^5 (least significant first).  On each of the levels  *)
(* 1..100 the double-precision sum of the source rounds up to this same    *)
(* integer (the exact sums of levels 4..100 lie more than 0.002 from an    *)
(* integer, those of levels 2 and 3 are 100 and 215).                      *)
(***************************************************************************)
BASE_XP_PER_LEVEL == 100
MAX_PLAYER_LEVEL  == 100
GrowthNum  == 23          \* XP_GROWTH_FACTOR = 1.15 = GrowthNum / GrowthDen
GrowthDen  == 20
Radix      == 3200000     \* GrowthDen^5
FracDigits == 20          \* the scale is Radix^FracDigits = GrowthDen^100

RECURSIVE MulSmall(_, _, _)
\* the digits of ds * m + c
MulSmall(ds, m, c) ==
    IF ds = <<>>
    THEN IF c = 0 THEN <<>> ELSE <<c>>
    ELSE <<(Head(ds) * m + c) % Radix>>
         \o MulSmall(Tail(ds), m, (Head(ds) * m + c) \div Radix)

RECURSIVE DivSmall(_, _, _, _)
\* the digits 1..i of (r * Radix^i + ds[1..i]) divided by d
DivSmall(ds, i, d, r) ==
    IF i = 0 THEN <<>>
    ELSE DivSmall(ds, i - 1, d, (r * Radix + ds[i]) % d)
         \o <<(r * Radix + ds[i]) \div d>>

RECURSIVE AddDigits(_, _, _)
AddDigits(a, b, c) ==
    IF a = <<>> /\ b = <<>>
    THEN IF c = 0 THEN <<>> ELSE <<c>>
    ELSE LET x == (IF a = <<>> THEN 0 ELSE Head(a))
                  + (IF b = <<>> THEN 0 ELSE Head(b)) + c
         IN  <<x % Radix>>
             \o AddDigits(IF a = <<>> THEN <<>> ELSE Tail(a),
                          IF b = <<>> THEN <<>> ELSE Tail(b),
                          x \div Radix)

RECURSIVE DigitsValue(_)
DigitsValue(ds) ==
    IF ds = <<>> THEN 0 ELSE Head(ds) + Radix * DigitsValue(Tail(ds))

\* 1 scaled: GROWTH ** 0
ScaledOne == [i \in 1..(FracDigits + 1) |-> IF i = FracDigits + 1 THEN 1 ELSE 0]

\* math.ceil(BASE * total) of a scaled sum of powers
CeilTotal(sum) ==
    LET n    == MulSmall(sum, BASE_XP_PER_LEVEL, 0)
        int  == IF Len(n) > FracDigits
                THEN SubSeq(n, FracDigits + 1, Len(n)) ELSE <<>>
        rest == \E i \in 1..FracDigits : i <= Len(n) /\ n[i] # 0
    IN  DigitsValue(int) + (IF rest THEN 1 ELSE 0)

\* line 87 and the loop's state before its first pass: sum = total,
\* power = GROWTH ** (lv - 2) for the next lv, table = the value
\* xp_required_for_level returns for each level passed so far
CurveStart == [power |-> ScaledOne, sum |-> <<>>, table |-> <<0>>]

\* lines 88-90: one pass of the loop, and the rounded total after it
CurvePass(c) ==
    LET q == MulSmall(c.power, GrowthNum, 0)
        total == AddDigits(c.sum, c.power, 0)
    IN  [power |-> DivSmall(q, Len(q), GrowthDen, 0),
         sum   |-> total,
         table |-> Append(c.table, CeilTotal(total))]

CurveStep ==
    /\ Len(curve.table) < MAX_PLAYER_LEVEL
    /\ curve' = CurvePass(curve)
    /\ UNCHANGED <<xpData, xpOut>>

CurveReady == Len(curve.table) = MAX_PLAYER_LEVEL

Clamp(lo, x, hi) == IF x < lo THEN lo ELSE IF x > hi THEN hi ELSE x

\* lines 84-90
XpRequiredForLevel(level) == curve.table[Clamp(1, level, MAX_PLAYER_LEVEL)]

\* level_from_xp with >= where the source compares with >
LevelFromXpInclusive(total_xp) ==
    LET t == IF total_xp < 0 THEN 0 ELSE total_xp
        hit == {lv \in 1..MAX_PLAYER_LEVEL : XpRequiredForLevel(lv + 1) >= t}
    IN  IF hit = {} THEN MAX_PLAYER_LEVEL
        ELSE CHOOSE lv \in hit : \A other \in hit : lv <= other

\* lines 106-110
LevelFromXp(total_xp) ==
    LET t == IF total_xp < 0 THEN 0 ELSE total_xp
        hit == {lv \in 1..MAX_PLAYER_LEVEL : XpRequiredForLevel(lv + 1) > t}
    IN  IF hit = {} THEN MAX_PLAYER_LEVEL
        ELSE CHOOSE lv \in hit : \A other \in hit : lv <= other


(***************************************************************************)
(* calculate_xp_reward and ProgressionTracker.award_xp (progression.py).   *)
(* The xp_multiplier values 0.8, 1.0, 1.3, 1.8 are held in tenths; on the  *)
(* reward table the float product rounds up to the same integer.           *)
(***************************************************************************)
XP_REWARDS ==
    [lesson_complete |-> 50, minigame_complete |-> 80,
     minigame_perfect |-> 150, character_mastered |-> 20,
     word_mastered |-> 25, grammar_mastered |-> 40,
     monument_complete |-> 500, daily_streak_bonus |-> 30,
     first_try_correct |-> 15, review_complete |-> 25]

XpMultiplierTenths ==
    [easy |-> 8, normal |-> 10, hard |-> 13, extreme |-> 18]

\* lines 140-142
CalculateXpReward(reward_key, difficulty) ==
    LET base == IF reward_key \in DOMAIN XP_REWARDS
                THEN XP_REWARDS[reward_key] ELSE 0
        mult == IF difficulty \in DOMAIN XpMultiplierTenths
                THEN XpMultiplierTenths[difficulty]
                ELSE XpMultiplierTenths[DEFAULT_DIFFICULTY]
    IN  (base * mult + 9) \div 10

\* dict.get(key, default) on an integer field
GetInt(d, k, default) == IF k \in DOMAIN d THEN d[k].v ELSE default

\* lines 604-622: the record after the call, and the dict returned
AwardXpResult(d, reward_key) ==
    LET xp_gained == CalculateXpReward(reward_key, d["difficulty"].s)
        total_xp  == GetInt(d, "player_xp", 0) + xp_gained
        old_level == GetInt(d, "player_level", 1)
        new_level == LevelFromXp(total_xp)
    IN  [op |-> "award", xp_gained |-> xp_gained, new_total_xp |-> total_xp,
         level |-> new_level, leveled_up |-> new_level > old_level,
         old_level |-> old_level, before |-> d]

\* award_xp that raises the stored level and never lowers it
AwardXpDataKeepLevel(d, reward_key) ==
    LET out == AwardXpResult(d, reward_key) IN
    [k \in DOMAIN d \cup {"player_xp", "player_level"} |->
       CASE k = "player_xp" -> IntV(out.new_total_xp)
         [] k = "player_level" ->
              IntV(IF out.leveled_up THEN out.level ELSE out.old_level)
         [] OTHER -> d[k]]

AwardXpData(d, reward_key) ==
    LET out == AwardXpResult(d, reward_key) IN
    [k \in DOMAIN d \cup {"player_xp", "player_level"} |->
       CASE k = "player_xp" -> IntV(out.new_total_xp)
         [] k = "player_level" -> IntV(out.level)
         [] OTHER -> d[k]]

\* the reward keys awarded here: the smallest, two that cross levels, the
\* largest, and one that XP_REWARDS does not have
RewardKeys ==
    {"first_try_correct", "lesson_complete", "minigame_perfect",
     "monument_complete", "no_such_reward"}

AwardXp ==
    /\ CurveReady
    /\ GetInt(xpData, "player_xp", 0) <= MaxXp
    /\ \E key \in RewardKeys :
         /\ xpData' = AwardXpData(xpData, key)
         /\ xpOut' = AwardXpResult(xpData, key)
    /\ UNCHANGED curve

\* level_from_xp applied at and just below the requirement of level n.
\* It is a module function that reads no record, so it is exercised once,
\* before the tracker awards anything.
QueryLevel ==
    /\ CurveReady
    /\ xpOut = NoOut
    /\ \E n \in 1..MAX_PLAYER_LEVEL :
         xpOut' = [op |-> "level", n |-> n,
                   at |-> LevelFromXp(XpRequiredForLevel(n)),
                   below |-> LevelFromXp(XpRequiredForLevel(n) - 1)]
    /\ UNCHANGED <<curve, xpData>>

\* The documents a save file may hold of the player's XP: none (a save
\* that predates the fields), agreeing ones, and ones that disagree.
XpFileDocs ==
    LET g == GoodRecord(IntV(1))
        noxp == [k \in DOMAIN g \ {"player_xp", "player_level"} |-> g[k]]
    IN  UNION {
          { [noxp EXCEPT !["difficulty"] = StrV(df)],
            [k \in DOMAIN g \ {"player_level"} |->
               IF k = "difficulty" THEN StrV(df) ELSE g[k]],
            [g EXCEPT !["difficulty"] = StrV(df),
                      !["player_xp"] = IntV(0), !["player_level"] = IntV(1)],
            [g EXCEPT !["difficulty"] = StrV(df)],
            [g EXCEPT !["difficulty"] = StrV(df),
                      !["player_xp"] = IntV(0), !["player_level"] = IntV(5)],
            [g EXCEPT !["difficulty"] = StrV(df),
                      !["player_xp"] = IntV(250), !["player_level"] = IntV(1)] }
          : df \in {"easy", "normal", "hard", "extreme", "nightmare"} }

\* The tracker holds a dict that load_game returned.
XPInit ==
    /\ curve = CurveStart
    /\ xpData \in {ValidateSaveData(d, IntV(1)) : d \in XpFileDocs}
    /\ xpOut = NoOut

(***************************************************************************)
(* GameManager: the loaded record and the monument-unlock rule             *)
(* (game_manager.py, config.MONUMENTS).  An identifier is held as the      *)
(* sequence of its parts between underscores, so that                      *)
(* id.startswith(category + "_") is: the parts of the category are a       *)
(* proper prefix of the parts of the id.                                   *)
(***************************************************************************)
TOTAL_MONUMENTS == 13

None == <<"None">>

\* config.MONUMENTS: category and unlock_requires of each monument
MONUMENTS ==
    [mid \in 0..(TOTAL_MONUMENTS - 1) |->
       CASE mid = 0  -> [category |-> <<"hiragana">>, unlock_requires |-> None]
         [] mid = 1  -> [category |-> <<"katakana">>,
                         unlock_requires |-> <<"hiragana">>]
         [] mid = 2  -> [category |-> <<"grammar", "basic">>,
                         unlock_requires |-> <<"katakana">>]
         [] mid = 3  -> [category |-> <<"vocabulary", "basic">>,
                         unlock_requires |-> <<"grammar", "basic">>]
         [] mid = 4  -> [category |-> <<"verbs">>,
                         unlock_requires |-> <<"vocabulary", "basic">>]
         [] mid = 5  -> [category |-> <<"kanji", "n5">>,
                         unlock_requires |-> <<"verbs">>]
         [] mid = 6  -> [category |-> <<"listening">>,
                         unlock_requires |-> <<"kanji", "n5">>]
         [] mid = 7  -> [category |-> <<"grammar", "intermediate">>,
                         unlock_requires |-> <<"listening">>]
         [] mid = 8  -> [category |-> <<"kanji", "intermediate">>,
                         unlock_requires |-> <<"grammar", "intermediate">>]
         [] mid = 9  -> [category |-> <<"reading">>,
                         unlock_requires |-> <<"kanji", "intermediate">>]
         [] mid = 10 -> [category |-> <<"conversation">>,
                         unlock_requires |-> <<"reading">>]
         [] mid = 11 -> [category |-> <<"advanced">>,
                         unlock_requires |-> <<"conversation">>]
         [] OTHER    -> [category |-> <<"immersion">>,
                         unlock_requires |-> <<"advanced">>]]

\* a prefix test on the first part of the category alone
StartsWithFirstPart(mg_id, category) ==
    /\ Len(mg_id) > 1
    /\ mg_id[1] = category[1]

\* mg_id.startswith(f"{category}_")
StartsWith(mg_id, category) ==
    /\ Len(mg_id) > Len(category)
    /\ SubSeq(mg_id, 1, Len(category)) = category

\* lines 317-318
CategoryMinigamesComplete(category, completed) ==
    \E i \in 1..Len(completed) : StartsWith(completed[i], category)

\* lines 280-292
IsMonumentUnlocked(save, monument_id) ==
    IF monument_id < 0 \/ monument_id >= TOTAL_MONUMENTS THEN FALSE
    ELSE IF monument_id = 0 THEN TRUE
    ELSE IF save = NoRec THEN FALSE
    ELSE IF MONUMENTS[monument_id].unlock_requires = None THEN TRUE
    ELSE CategoryMinigamesComplete(MONUMENTS[monument_id].unlock_requires,
                                   save.completed_minigames)

\* get_unlocked_monuments, line 296: the ids as a set (the list is the
\* set in ascending order)
GetUnlockedMonuments(save) ==
    {mid \in 0..(TOTAL_MONUMENTS - 1) : IsMonumentUnlocked(save, mid)}

\* get_highest_unlocked_monument, lines 300-301: the last of the list
GetHighestUnlockedMonument(save) ==
    LET unlocked == GetUnlockedMonuments(save) IN
    IF unlocked = {} THEN 0
    ELSE CHOOSE mid \in unlocked : \A other \in unlocked : other <= mid

\* The identifiers the model completes minigames with.
MinigameIds ==
    { <<"hiragana", "minigame", "1">>,
      <<"hiragana">>,
      <<"katakana", "lesson", "2">>,
      <<"grammar", "intermediate", "minigame", "1">>,
      <<"kanji", "minigame", "1">>,
      <<"advanced", "">> }

Contains(q, x) == \E i \in 1..Len(q) : q[i] = x

NoState == "None"      \* _previous_state is None
NoTime  == -1          \* _session_paused_at is None

\* save.get("total_play_time", 0.0), line 251
SavedPlayTime(save) ==
    IF save # NoRec /\ "total_play_time" \in DOMAIN save
    THEN save.total_play_time ELSE 0

\* get_session_play_time at time t, lines 239-242
GetSessionPlayTime(m, t) ==
    LET elapsed == t - m.session_start - m.acc_pause
        unpaused == IF m.paused_at # NoTime
                    THEN elapsed - (t - m.paused_at) ELSE elapsed
    IN  IF unpaused > 0 THEN unpaused ELSE 0

\* get_total_play_time at time t, lines 249-252
GetTotalPlayTime(save, m, t) == SavedPlayTime(save) + GetSessionPlayTime(m, t)

\* load_save_data(record), lines 228-230
LoadSaveData(record) ==
    /\ gmSave' = record
    /\ gs' = [gs EXCEPT !.session_start = clock, !.acc_pause = 0]
    /\ played' = [session |-> 0, record |-> 0,
                  at_load |-> SavedPlayTime(record)]

\* load_save_data, lines 228-230, with a record whose list is empty or
\* holds one identifier
GmLoadSaveData ==
    /\ \E q \in {<<>>} \cup {<<m>> : m \in MinigameIds} :
         LoadSaveData([completed_minigames |-> q])
    /\ gmOut' = NoOut

\* clear_save_data, line 235
GmClearSaveData ==
    /\ gmSave # NoRec
    /\ gmSave' = NoRec
    /\ gmOut' = NoOut
    /\ UNCHANGED <<gs, played>>

\* An append that does not look whether the id is there already.
MarkAlways(save, key, id) ==
    IF save = NoRec THEN save
    ELSE [k \in DOMAIN save \cup {key} |->
            IF k = key
            THEN Append(IF key \in DOMAIN save THEN save[key] ELSE <<>>, id)
            ELSE save[k]]

\* lines 324-328 and their three copies: return when no record is loaded;
\* setdefault(key, []); append the id when it is not in the list
MarkDone(save, key, id) ==
    IF save = NoRec THEN save
    ELSE LET lst == IF key \in DOMAIN save THEN save[key] ELSE <<>>
         IN  [k \in DOMAIN save \cup {key} |->
                IF k = key
                THEN (IF Contains(lst, id) THEN lst ELSE Append(lst, id))
                ELSE save[k]]

\* complete_minigame, lines 333-338
CompleteMinigameSave(save, minigame_id) ==
    MarkDone(save, "completed_minigames", minigame_id)

GmCompleteMinigame ==
    /\ \E m \in MinigameIds : gmSave' = CompleteMinigameSave(gmSave, m)
    /\ gmOut' = NoOut
    /\ UNCHANGED <<gs, played>>

\* is_monument_unlocked(monument_id)
GmQueryUnlocked ==
    /\ \E mid \in -1..(TOTAL_MONUMENTS + 1) :
         gmOut' = [op |-> "unlocked", id |-> mid,
                   value |-> IsMonumentUnlocked(gmSave, mid)]
    /\ UNCHANGED <<gmSave, gs, played>>

\* The records load_save_data is given when the progress lists are
\* followed: empty lists, lists already holding ids, and a record that
\* lacks one of the lists.
LessonIds  == {"hiragana_lesson_1", "hiragana_lesson_2"}
VocabIds   == {"neko", "inu"}
GrammarIds == {"wa", "ga"}
PlayedMinigameIds ==
    { <<"hiragana", "minigame", "1">>, <<"katakana", "lesson", "2">> }

ProgressRecords ==
    { [completed_lessons |-> <<>>, completed_minigames |-> <<>>,
       vocabulary_learned |-> <<>>, grammar_learned |-> <<>>],
      [completed_lessons |-> <<"hiragana_lesson_2", "hiragana_lesson_1">>,
       completed_minigames |-> <<<<"katakana", "lesson", "2">>>>,
       vocabulary_learned |-> <<"inu">>, grammar_learned |-> <<>>],
      [completed_lessons |-> <<"hiragana_lesson_1">>,
       completed_minigames |-> <<>>, grammar_learned |-> <<"ga", "wa">>] }

\* load_save_data, lines 228-230
GmLoadProgress ==
    /\ \E r \in ProgressRecords : LoadSaveData(r)
    /\ gmOut' = NoOut

Marked(key, id) ==
    /\ gmSave' = MarkDone(gmSave, key, id)
    /\ gmOut' = [op |-> "mark", key |-> key, id |-> id, before |-> gmSave]
    /\ UNCHANGED <<gs, played>>

\* complete_lesson, lines 322-329
GmCompleteLesson == \E id \in LessonIds : Marked("completed_lessons", id)

\* complete_minigame, lines 331-338, with its call kept in gmOut
GmCompleteMinigameId ==
    \E id \in PlayedMinigameIds : Marked("completed_minigames", id)

\* learn_vocabulary, lines 340-346
GmLearnVocabulary == \E id \in VocabIds : Marked("vocabulary_learned", id)

\* learn_grammar, lines 348-354
GmLearnGrammar == \E id \in GrammarIds : Marked("grammar_learned", id)

(***************************************************************************)
(* ProgressionTracker over the record the GameManager holds: the           *)
(* recommendation and the completion percentage (progression.py).  An      *)
(* identifier is the sequence of its parts between underscores, as in the  *)
(* unlock rule; mastered_characters is kept in chars.                      *)
(***************************************************************************)
\* f"{category}_lesson_{n}" and f"{category}_minigame_{n}"
LessonId(category, n)   == category \o <<"lesson", ToString(n)>>
MinigameId(category, n) == category \o <<"minigame", ToString(n)>>

\* self._data.get("current_monument", 0), line 537
GetCurrent(save) ==
    IF "current_monument" \in DOMAIN save THEN save.current_monument ELSE 0

\* save.get(key, []) for a list field
GetList(save, key) == IF key \in DOMAIN save THEN save[key] ELSE <<>>

ScriptOrder == <<"hiragana", "katakana", "kanji">>

NoRecommendation == [type |-> "None"]

\* a recommender that never looks at the minigames
RecommendWithoutMinigames(save, mc, t) ==
    LET current == GetCurrent(save) IN
    IF current \notin DOMAIN MONUMENTS THEN [type |-> "KeyError"]
    ELSE
    LET category == MONUMENTS[current].category
        due == {i \in 1..3 : GetDueItems(mc, ScriptOrder[i], 1, t) # <<>>}
        lessons == GetList(save, "completed_lessons")
    IN  IF due # {}
        THEN [type |-> "review",
              category |-> <<ScriptOrder[CHOOSE i \in due :
                                           \A j \in due : i <= j]>>,
              monument_id |-> current]
        ELSE IF \E n \in 1..5 : ~Contains(lessons, LessonId(category, n))
        THEN [type |-> "lesson", category |-> category,
              monument_id |-> current]
        ELSE IF current + 1 < TOTAL_MONUMENTS
        THEN [type |-> "new_monument",
              category |-> MONUMENTS[current + 1].category,
              monument_id |-> current + 1]
        ELSE NoRecommendation

\* a recommender that looks at the lessons before the reviews
RecommendLessonsFirst(save, mc, t) ==
    LET current == GetCurrent(save) IN
    IF current \notin DOMAIN MONUMENTS THEN [type |-> "KeyError"]
    ELSE
    LET category == MONUMENTS[current].category
        due == {i \in 1..3 : GetDueItems(mc, ScriptOrder[i], 1, t) # <<>>}
        lessons == GetList(save, "completed_lessons")
        minigames == GetList(save, "completed_minigames")
    IN  IF \E n \in 1..5 : ~Contains(lessons, LessonId(category, n))
        THEN [type |-> "lesson", category |-> category,
              monument_id |-> current]
        ELSE IF due # {}
        THEN [type |-> "review",
              category |-> <<ScriptOrder[CHOOSE i \in due :
                                           \A j \in due : i <= j]>>,
              monument_id |-> current]
        ELSE IF \E n \in 1..3 : ~Contains(minigames, MinigameId(category, n))
        THEN [type |-> "minigame", category |-> category,
              monument_id |-> current]
        ELSE IF current + 1 < TOTAL_MONUMENTS
        THEN [type |-> "new_monument",
              category |-> MONUMENTS[current + 1].category,
              monument_id |-> current + 1]
        ELSE NoRecommendation

\* recommend_next_lesson at time t, lines 537-588: what it returns, or the
\* KeyError of MONUMENTS[current] on line 538
RecommendNextLesson(save, mc, t) ==
    LET current == GetCurrent(save) IN
    IF current \notin DOMAIN MONUMENTS THEN [type |-> "KeyError"]
    ELSE
    LET category == MONUMENTS[current].category
        due == {i \in 1..3 : GetDueItems(mc, ScriptOrder[i], 1, t) # <<>>}
        lessons == GetList(save, "completed_lessons")
        minigames == GetList(save, "completed_minigames")
    IN  IF due # {}
        THEN [type |-> "review",
              category |-> <<ScriptOrder[CHOOSE i \in due :
                                           \A j \in due : i <= j]>>,
              monument_id |-> current]
        ELSE IF \E n \in 1..5 : ~Contains(lessons, LessonId(category, n))
        THEN [type |-> "lesson", category |-> category,
              monument_id |-> current]
        ELSE IF \E n \in 1..3 : ~Contains(minigames, MinigameId(category, n))
        THEN [type |-> "minigame", category |-> category,
              monument_id |-> current]
        ELSE IF current + 1 < TOTAL_MONUMENTS
        THEN [type |-> "new_monument",
              category |-> MONUMENTS[current + 1].category,
              monument_id |-> current + 1]
        ELSE NoRecommendation

\* _expected_mastery_count, lines 420-436
ExpectedMasteryCount(category) ==
    CASE category = <<"hiragana">>                -> 46
      [] category = <<"katakana">>                -> 46
      [] category = <<"grammar", "basic">>        -> 20
      [] category = <<"vocabulary", "basic">>     -> 200
      [] category = <<"verbs">>                   -> 50
      [] category = <<"kanji", "n5">>             -> 100
      [] category = <<"listening">>               -> 30
      [] category = <<"grammar", "intermediate">> -> 40
      [] category = <<"kanji", "intermediate">>   -> 350
      [] category = <<"reading">>                 -> 25
      [] category = <<"conversation">>            -> 20
      [] category = <<"advanced">>                -> 60
      [] category = <<"immersion">>               -> 30
      [] OTHER                                    -> 30

\* sum(1 for id in ids if id.startswith(f"{category}_"))
CountPrefixed(ids, category) ==
    LET has(id) == StartsWith(id, category) IN Len(SelectSeq(ids, has))

\* lines 385-397: the script whose mastered items count for the category,
\* None for a category that has none
MasteryScript(category) ==
    IF category \in {<<"hiragana">>, <<"katakana">>} THEN category[1]
    ELSE IF category[1] = "kanji" THEN "kanji"
    ELSE "None"

\* lines 386-397: the dicts of the script whose stage is "mastered"
MasteredCount(mc, category) ==
    LET script == MasteryScript(category)
        script_dict == IF script \in DOMAIN mc THEN mc[script] ELSE <<>>
        mastered(e) == /\ IsDict(e.info)
                       /\ "stage" \in DOMAIN e.info.sub
                       /\ e.info.sub["stage"] = StrV("mastered")
    IN  Len(SelectSeq(script_dict, mastered))

\* round(n / d) for n >= 0, d > 0
RoundDiv(n, d) == (2 * n + d) \div (2 * d)

\* a percentage whose three fractions are not cut at 1
CompletionUnclamped(save, mc, monument_id) ==
    IF monument_id \notin DOMAIN MONUMENTS THEN 0
    ELSE
    LET category == MONUMENTS[monument_id].category
        lesson_count ==
            CountPrefixed(GetList(save, "completed_lessons"), category)
        minigame_count ==
            CountPrefixed(GetList(save, "completed_minigames"), category)
        mastered_count == MasteredCount(mc, category)
        expected_mastery == ExpectedMasteryCount(category)
    IN  RoundDiv(300 * lesson_count * 3 * expected_mastery
                   + 300 * minigame_count * 5 * expected_mastery
                   + 400 * mastered_count * 15,
                 15 * expected_mastery)

\* monument_completion_percentage, lines 374-415, in tenths of a percent:
\* the fractions are lesson_count/5, minigame_count/3 and
\* mastered_count/expected_mastery, each cut at 1; the weighted sum times
\* 100 is rounded to one decimal
MonumentCompletionPercentage(save, mc, monument_id) ==
    IF monument_id \notin DOMAIN MONUMENTS THEN 0
    ELSE
    LET category == MONUMENTS[monument_id].category
        lesson_count ==
            CountPrefixed(GetList(save, "completed_lessons"), category)
        minigame_count ==
            CountPrefixed(GetList(save, "completed_minigames"), category)
        mastered_count == MasteredCount(mc, category)
        expected_lessons == 5
        expected_minigames == 3
        expected_mastery == ExpectedMasteryCount(category)
        cut(n, d) == IF n < d THEN n ELSE d
    IN  RoundDiv(300 * cut(lesson_count, expected_lessons)
                     * expected_minigames * expected_mastery
                   + 300 * cut(minigame_count, expected_minigames)
                         * expected_lessons * expected_mastery
                   + 400 * cut(mastered_count, expected_mastery)
                         * expected_lessons * expected_minigames,
                 expected_lessons * expected_minigames * expected_mastery)

\* The records the tracker is given.  Of monument 0: nothing done; four
\* lessons and two minigames done; everything done.  Of monument 2
\* (grammar_basic): more lessons and minigames than are expected, one
\* lesson list holding a katakana id.  Of monument 5 (kanji_n5):
\* everything done.  Of the last monument: everything done.  And a record
\* whose current_monument names no monument.
AllLessons(category)   == [n \in 1..5 |-> LessonId(category, n)]
AllMinigames(category) == [n \in 1..3 |-> MinigameId(category, n)]

TrackerRecords ==
    LET h == <<"hiragana">>
        g == <<"grammar", "basic">>
        k == <<"kanji", "n5">>
        i == <<"immersion">>
    IN  { [current_monument |-> 0, completed_lessons |-> <<>>,
           completed_minigames |-> <<>>],
          [current_monument |-> 0,
           completed_lessons |-> SubSeq(AllLessons(h), 2, 5),
           completed_minigames |-> SubSeq(AllMinigames(h), 1, 2)],
          [current_monument |-> 0, completed_lessons |-> AllLessons(h),
           completed_minigames |-> AllMinigames(h)],
          [current_monument |-> 2,
           completed_lessons |-> AllLessons(g) \o <<LessonId(g, 6)>>,
           completed_minigames |-> AllMinigames(g) \o <<MinigameId(g, 4)>>],
          [current_monument |-> 2,
           completed_lessons |-> <<LessonId(<<"katakana">>, 1)>>
                                   \o SubSeq(AllLessons(g), 1, 4),
           completed_minigames |-> <<>>],
          [current_monument |-> 5, completed_lessons |-> AllLessons(k),
           completed_minigames |-> AllMinigames(k)],
          [current_monument |-> 12, completed_lessons |-> AllLessons(i),
           completed_minigames |-> AllMinigames(i)],
          [current_monument |-> 13, completed_lessons |-> <<>>,
           completed_minigames |-> <<>>] }

\* The mastered_characters the tracker is given: none; items that fall due
\* as the clock goes on, a katakana one before a hiragana one; more
\* mastered hiragana than are expected, none due before the clock's end;
\* and mastered kanji with an entry that is no dict.
TrackerStores ==
    LET far == MaxClock + 1
        later == [id |-> "a", info |-> StoredItem("review", 2)]
        sooner == [id |-> "ka", info |-> StoredItem("learning", 1)]
        m(n) == [id |-> ToString(n), info |-> StoredItem("mastered", far)]
        d == [id |-> "d", info |-> StrV("mastered")]
    IN  { [sc \in {} |-> <<>>],
          [hiragana |-> <<later>>, katakana |-> <<sooner>>],
          [hiragana |->
              [n \in 1..(ExpectedMasteryCount(<<"hiragana">>) + 1) |-> m(n)]],
          [kanji |-> <<m(1), d, m(2)>>] }

\* time passes
TrackerTick ==
    /\ clock < MaxClock
    /\ clock' = clock + 1
    /\ UNCHANGED <<gmSave, gmOut, chars>>

\* complete_lesson with an id of the current monument
TrackerCompleteLesson ==
    /\ GetCurrent(gmSave) \in DOMAIN MONUMENTS
    /\ \E n \in {1, 5} :
         Marked("completed_lessons",
                LessonId(MONUMENTS[GetCurrent(gmSave)].category, n))
    /\ UNCHANGED <<chars, clock>>

\* complete_minigame with an id of the current monument
TrackerCompleteMinigame ==
    /\ GetCurrent(gmSave) \in DOMAIN MONUMENTS
    /\ \E n \in {3} :
         Marked("completed_minigames",
                MinigameId(MONUMENTS[GetCurrent(gmSave)].category, n))
    /\ UNCHANGED <<chars, clock>>

\* the current_monument setter (game_manager.py lines 151-154) given the
\* monument a new_monument recommendation names
TrackerAdvance ==
    /\ gmOut # NoOut /\ gmOut.op = "recommend"
    /\ gmOut.result.type = "new_monument"
    /\ gmSave' = [gmSave EXCEPT
                    !.current_monument = gmOut.result.monument_id]
    /\ gmOut' = NoOut
    /\ UNCHANGED <<chars, clock>>

\* recommend_next_lesson()
TrackerRecommend ==
    /\ gmOut' = [op |-> "recommend", save |-> gmSave, mc |-> chars,
                 at |-> clock,
                 result |-> RecommendNextLesson(gmSave, chars, clock)]
    /\ UNCHANGED <<gmSave, chars, clock>>

\* monument_completion_percentage(monument_id), also with ids that name
\* no monument
TrackerCompletion ==
    /\ \E monument_id \in -1..TOTAL_MONUMENTS :
         gmOut' = [op |-> "completion", save |-> gmSave, mc |-> chars,
                   monument_id |-> monument_id,
                   value |-> MonumentCompletionPercentage(gmSave, chars,
                                                          monument_id)]
    /\ UNCHANGED <<gmSave, chars, clock>>

TrackerInit ==
    /\ gmSave \in TrackerRecords /\ gmOut = NoOut
    /\ chars \in TrackerStores /\ clock = 0 /\ dueOut = NoOut

\* GameManager.__init__, line 109
GMInit == gmSave = NoRec /\ gmOut = NoOut

(***************************************************************************)
(* GameManager's state machine (game_manager.py).  A callback is a         *)
(* callable the manager knows nothing of: when it is invoked it returns    *)
(* or it raises an Exception.                                              *)
(***************************************************************************)
GameStates ==
    {"MENU", "CHARACTER_CREATION", "OVERWORLD", "MINIGAME", "LESSON",
     "DIALOG", "PAUSED", "LOADING", "SETTINGS"}

\* __init__, lines 101-114, at time t
NewManager(t) ==
    [cur |-> "MENU", prev |-> NoState, session_start |-> t,
     paused_at |-> NoTime, acc_pause |-> 0]

\* transition_to without the early return of lines 177-179
TransitionToAlways(m, new_state, t) ==
    LET timed ==
            IF new_state = "PAUSED" THEN [m EXCEPT !.paused_at = t]
            ELSE IF m.cur = "PAUSED" /\ m.paused_at # NoTime
            THEN [m EXCEPT !.acc_pause = @ + (t - m.paused_at),
                           !.paused_at = NoTime]
            ELSE m
    IN  [timed EXCEPT !.prev = m.cur, !.cur = new_state]

\* lines 175-189: the fields after transition_to(new_state) at time t
TransitionTo(m, new_state, t) ==
    IF new_state = m.cur THEN m
    ELSE LET timed ==
                 IF new_state = "PAUSED" THEN [m EXCEPT !.paused_at = t]
                 ELSE IF m.cur = "PAUSED" /\ m.paused_at # NoTime
                 THEN [m EXCEPT !.acc_pause = @ + (t - m.paused_at),
                                !.paused_at = NoTime]
                 ELSE m
         IN  [timed EXCEPT !.prev = m.cur, !.cur = new_state]

\* a callback loop that an exception ends
FireUntilRaise(list, raises) ==
    LET bad == {i \in 1..Len(list) : raises[i]}
        stop == IF bad = {} THEN Len(list)
                ELSE CHOOSE i \in bad : \A j \in bad : i <= j
    IN  [fired |-> [i \in 1..stop |-> [cb |-> list[i], raised |-> raises[i]]],
         propagated |-> bad # {}]

\* lines 191-199: every callback of the list is called, in order; what a
\* callback raises is caught and logged
FireCallbacks(list, raises) ==
    [fired |-> [i \in 1..Len(list) |-> [cb |-> list[i], raised |-> raises[i]]],
     propagated |-> FALSE]

NoFire == [fired |-> <<>>, propagated |-> FALSE]

\* history: what the call before this one was
Prior(out) ==
    IF out.op \in {"transition", "return"}
    THEN [op |-> out.op, from |-> out.before.cur, to |-> out.to]
    ELSE [op |-> out.op, from |-> NoState, to |-> NoState]


\* transition_to(new_state) as a call: the fields and what it invoked
Transition(op, new_state) ==
    /\ gs' = TransitionTo(gs, new_state, clock)
    /\ \E raises \in [1..Len(cbs[new_state]) -> BOOLEAN] :
         LET f == IF new_state = gs.cur THEN NoFire
                  ELSE FireCallbacks(cbs[new_state], raises)
         IN  gsOut' = [op |-> op, to |-> new_state, before |-> gs,
                       fired |-> f.fired, propagated |-> f.propagated,
                       after |-> Prior(gsOut)]

\* the states the model moves between, and those callbacks are put on
TransitionStates == {"MENU", "OVERWORLD", "PAUSED"}
CallbackStates   == {"OVERWORLD", "PAUSED"}
Callbacks        == {"c1", "c2"}

\* transition_to, lines 168-199
GsTransitionTo ==
    /\ \E new_state \in TransitionStates : Transition("transition", new_state)
    /\ UNCHANGED <<cbs, played>>

\* return_to_previous_state, lines 214-215
GsReturnToPrevious ==
    /\ IF gs.prev # NoState
       THEN Transition("return", gs.prev)
       ELSE /\ gs' = gs
            /\ gsOut' = [op |-> "return", to |-> NoState, before |-> gs,
                         fired |-> <<>>, propagated |-> FALSE,
                         after |-> Prior(gsOut)]
    /\ UNCHANGED <<cbs, played>>

\* on_state_enter, line 203
GsOnStateEnter ==
    /\ \E st \in CallbackStates, cb \in Callbacks :
         /\ Len(cbs[st]) < MaxCallbacks
         /\ cbs' = [cbs EXCEPT ![st] = Append(@, cb)]
    /\ gsOut' = [op |-> "register"]
    /\ UNCHANGED <<gs, played>>

\* list.remove(x): the first x is taken out
RemoveFirst(q, x) ==
    LET hits == {i \in 1..Len(q) : q[i] = x} IN
    IF hits = {} THEN q
    ELSE LET at == CHOOSE i \in hits : \A j \in hits : i <= j
         IN  SubSeq(q, 1, at - 1) \o SubSeq(q, at + 1, Len(q))

\* remove_state_callback, lines 207-210
GsRemoveStateCallback ==
    /\ \E st \in CallbackStates, cb \in Callbacks :
         cbs' = [cbs EXCEPT ![st] = RemoveFirst(@, cb)]
    /\ gsOut' = [op |-> "unregister"]
    /\ UNCHANGED <<gs, played>>

NoPlay == [session |-> 0, record |-> 0, at_load |-> 0]

\* a flush that leaves the session clock running
FlushKeepSession(save, m, t) ==
    IF save = NoRec THEN [save |-> save, gs |-> m]
    ELSE [save |-> [k \in DOMAIN save \cup {"total_play_time"} |->
                      IF k = "total_play_time"
                      THEN GetTotalPlayTime(save, m, t) ELSE save[k]],
          gs |-> m]

\* update_play_time_in_save at time t, lines 256-260: the record and the
\* manager's fields after it
UpdatePlayTimeInSave(save, m, t) ==
    IF save = NoRec THEN [save |-> save, gs |-> m]
    ELSE [save |-> [k \in DOMAIN save \cup {"total_play_time"} |->
                      IF k = "total_play_time"
                      THEN GetTotalPlayTime(save, m, t) ELSE save[k]],
          gs |-> [m EXCEPT !.session_start = t, !.acc_pause = 0]]

\* The wall clock advances by a second; the second counts as played when
\* the game is not paused.
PlayTick ==
    /\ clock < MaxClock
    /\ clock' = clock + 1
    /\ played' = IF gs.cur = "PAUSED" THEN played
                 ELSE [played EXCEPT !.session = @ + 1, !.record = @ + 1]
    /\ UNCHANGED <<gs, gsOut, gmSave>>

\* the records the game hands to load_save_data
PlayRecords ==
    { [player_name |-> "Aki", total_play_time |-> 0],
      [player_name |-> "Ren", total_play_time |-> 2],
      [player_name |-> "Yui"] }

\* load_save_data, lines 219-231
GsLoadSaveData ==
    /\ \E r \in PlayRecords : LoadSaveData(r)
    /\ gsOut' = [op |-> "load"]
    /\ UNCHANGED clock

\* update_play_time_in_save, lines 254-260
GsUpdatePlayTimeInSave ==
    LET after == UpdatePlayTimeInSave(gmSave, gs, clock) IN
    /\ gmSave' = after.save
    /\ gs' = after.gs
    /\ played' = IF gmSave = NoRec THEN played
                 ELSE [played EXCEPT !.session = 0]
    /\ gsOut' = [op |-> "flush", loaded |-> gmSave # NoRec,
                 total_before |-> SavedPlayTime(gmSave), before |-> gs]
    /\ UNCHANGED clock

\* get_session_play_time, lines 237-242
GsGetSessionPlayTime ==
    /\ gsOut' = [op |-> "session_time", at |-> clock,
                 value |-> GetSessionPlayTime(gs, clock)]
    /\ UNCHANGED <<gs, played, gmSave, clock>>

\* GameManager.__init__, lines 101-114
GSInit ==
    /\ gs = NewManager(0)
    /\ cbs = [st \in GameStates |-> <<>>]
    /\ gsOut = NoOut
    /\ played = NoPlay

(***************************************************************************)
(* The specifications.                                                     *)
(***************************************************************************)
SaveIdle ==
    /\ slot = IntV(MAX_SAVE_SLOTS) /\ primary = Absent /\ backup = Absent /\ tmp = Absent
    /\ pc = "idle" /\ caller = "none" /\ data = NoRec /\ now = 1
    /\ ret = NoRet /\ arg = NoRec
    /\ pre = [primary |-> Absent, backup |-> Absent]
    /\ target = [kind |-> "nosave"] /\ fault = FALSE
SRSIdle == item = FreshItem /\ call = NoCall /\ run = 0
XPIdle  ==
    /\ curve = CurveStart
    /\ xpData = ValidateSaveData(GoodRecord(IntV(1)), IntV(1)) /\ xpOut = NoOut
GMIdle  == gmSave = NoRec /\ gmOut = NoOut
GSIdle  == GSInit
DueIdle ==
    /\ chars = [sc \in {} |-> <<>>] /\ clock = 0 /\ dueOut = NoOut

SaveFrame == UNCHANGED <<srsVars, dueVars, xpVars, gmVars, gsVars>>
SRSFrame  == UNCHANGED <<saveVars, dueVars, xpVars, gmVars, gsVars>>
DueFrame  == UNCHANGED <<saveVars, srsVars, xpVars, gmVars, gsVars>>
XPFrame   == UNCHANGED <<saveVars, srsVars, dueVars, gmVars, gsVars>>
GMFrame   == UNCHANGED <<saveVars, srsVars, dueVars, xpVars, cbs, gsOut>>

\* The save store of one slot.
Init == SaveInit /\ SRSIdle /\ DueIdle /\ XPIdle /\ GMIdle /\ GSIdle
Next ==
    \/ SaveBegin /\ SaveFrame
    \/ SaveMkdirFail /\ SaveFrame
    \/ SaveBackupSkip /\ SaveFrame
    \/ SaveBackupOpen /\ SaveFrame
    \/ SaveBackupCopy /\ SaveFrame
    \/ SaveBackupFail /\ SaveFrame
    \/ SaveOpenTmp /\ SaveFrame
    \/ SaveOpenTmpFail /\ SaveFrame
    \/ SaveDump /\ SaveFrame
    \/ SaveDumpFail /\ SaveFrame
    \/ SaveReplace /\ SaveFrame
    \/ SaveReplaceFail /\ SaveFrame
    \/ SaveCleanup /\ SaveFrame
    \/ SaveCleanupFail /\ SaveFrame
    \/ Crash /\ SaveFrame
    \/ LoadPrimary /\ SaveFrame
    \/ LoadBackup /\ SaveFrame
    \/ LoadReadFail /\ SaveFrame
    \/ LoadNone /\ SaveFrame
Spec == Init /\ [][Next]_vars

\* One SRSItem under record_answer.
SRSInitAll == SaveIdle /\ SRSInit /\ DueIdle /\ XPIdle /\ GMIdle /\ GSIdle
SRSNextAll ==
    \/ RecordCorrect /\ SRSFrame
    \/ RecordIncorrect /\ SRSFrame
SRSSpec == SRSInitAll /\ [][SRSNextAll]_vars

\* The tracker's stored items under get_due_items.
DueInitAll == SaveIdle /\ SRSIdle /\ DueInit /\ XPIdle /\ GMIdle /\ GSIdle
DueNextAll ==
    \/ DueTick /\ DueFrame
    \/ DueQuery /\ DueFrame
DueSpec == DueInitAll /\ [][DueNextAll]_vars

\* The XP curve and award_xp.
XPInitAll == SaveIdle /\ SRSIdle /\ DueIdle /\ XPInit /\ GMIdle /\ GSIdle
XPNextAll ==
    \/ CurveStep /\ XPFrame
    \/ AwardXp /\ XPFrame
    \/ QueryLevel /\ XPFrame
XPSpec == XPInitAll /\ [][XPNextAll]_vars

\* The GameManager's record and unlock queries.
GMInitAll == SaveIdle /\ SRSIdle /\ DueIdle /\ XPIdle /\ GMInit /\ GSIdle
GMNextAll ==
    \/ GmLoadSaveData /\ GMFrame
    \/ GmClearSaveData /\ GMFrame
    \/ GmCompleteMinigame /\ GMFrame
    \/ GmQueryUnlocked /\ GMFrame
GMSpec == GMInitAll /\ [][GMNextAll]_vars

\* The save store called with valid and invalid slot arguments, on a disk
\* that does not fail while a file is written.
SlotInitAll == SlotInit /\ SRSIdle /\ DueIdle /\ XPIdle /\ GMIdle /\ GSIdle
SlotNextAll ==
    \/ SlotSaveGame /\ SaveFrame
    \/ SlotLoadGame /\ SaveFrame
    \/ SlotDeleteSave /\ SaveFrame
    \/ SlotDoesSaveExist /\ SaveFrame
    \/ SlotCreateNewSave /\ SaveFrame
    \/ SaveBackupSkip /\ SaveFrame
    \/ SaveBackupOpen /\ SaveFrame
    \/ SaveBackupCopy /\ SaveFrame
    \/ SaveOpenTmp /\ SaveFrame
    \/ SaveDump /\ SaveFrame
    \/ SaveReplace /\ SaveFrame
    \/ SaveCleanup /\ SaveFrame
SlotSpec == SlotInitAll /\ [][SlotNextAll]_vars

\* The GameManager's state machine and its enter-callbacks.
StateFrame == UNCHANGED <<saveVars, srsVars, dueVars, xpVars, gmVars>>
StateInitAll == SaveIdle /\ SRSIdle /\ DueIdle /\ XPIdle /\ GMIdle /\ GSInit
StateNextAll ==
    \/ GsTransitionTo /\ StateFrame
    \/ GsReturnToPrevious /\ StateFrame
    \/ GsOnStateEnter /\ StateFrame
    \/ GsRemoveStateCallback /\ StateFrame
StateSpec == StateInitAll /\ [][StateNextAll]_vars

\* The GameManager's session clock: transitions, loads and flushes as
\* the wall clock advances.
PlayFrame == UNCHANGED <<saveVars, srsVars, chars, dueOut, xpVars, gmOut, cbs>>
PlayNextAll ==
    \/ PlayTick /\ PlayFrame
    \/ GsTransitionTo /\ StateFrame
    \/ GsReturnToPrevious /\ StateFrame
    \/ GsLoadSaveData /\ PlayFrame
    \/ GsUpdatePlayTimeInSave /\ PlayFrame
    \/ GsGetSessionPlayTime /\ PlayFrame
PlaySpec == StateInitAll /\ [][PlayNextAll]_vars

\* The GameManager's record under the four progress helpers.
ProgressNextAll ==
    \/ GmLoadProgress /\ GMFrame
    \/ GmClearSaveData /\ GMFrame
    \/ GmCompleteLesson /\ GMFrame
    \/ GmCompleteMinigameId /\ GMFrame
    \/ GmLearnVocabulary /\ GMFrame
    \/ GmLearnGrammar /\ GMFrame
ProgressSpec == GMInitAll /\ [][ProgressNextAll]_vars

\* The tracker's recommendation and completion percentage over a record
\* and its mastered characters, as lessons and minigames are completed,
\* the clock goes on and the player moves to the recommended monument.
TrackerFrame == UNCHANGED <<saveVars, srsVars, xpVars, dueOut, gsVars>>
TrackerInitAll ==
    SaveIdle /\ SRSIdle /\ XPIdle /\ GSIdle /\ TrackerInit
TrackerNextAll ==
    \/ TrackerTick /\ TrackerFrame
    \/ TrackerCompleteLesson /\ TrackerFrame
    \/ TrackerCompleteMinigame /\ TrackerFrame
    \/ TrackerAdvance /\ TrackerFrame
    \/ TrackerRecommend /\ TrackerFrame
    \/ TrackerCompletion /\ TrackerFrame
TrackerSpec == TrackerInitAll /\ [][TrackerNextAll]_vars

(***************************************************************************)
(* The save store's properties.                                            *)
(***************************************************************************)
\* C1: at every step of a save, a crash included, the primary file holds
\* the complete document it held when the call began or the complete new
\* document, never a partial one; and the primary changes in one step
\* only, the replace, which puts a fully written temp file in its place.
C1_PrimaryOldOrNew ==
    /\ [](/\ primary.kind # "partial"
          /\ \/ primary = pre.primary
             \/ target.kind = "object" /\ primary = target)
    /\ [][primary' # primary =>
            /\ pc = "s_replace"
            /\ tmp.kind = "object"
            /\ primary' = tmp]_vars

\* a crash while the temp file is half written, the primary untouched
C1_CrashMidWrite ==
    /\ ret.op = "crash"
    /\ tmp = Partial
    /\ primary.kind = "object"
    /\ primary = pre.primary
    /\ target.kind = "object"
    /\ primary # target

\* C2, as the code has it: with a corrupt primary and a valid backup, load
\* returns the backup's document as the validator leaves it with
\* last_played stamped anew by the healing save; the primary then holds
\* exactly the returned document, unless an I/O fault stopped the healing
\* save, in which case the primary is as it was.
C2_BackupRecovery ==
    (/\ ret.op = "load" /\ ret.ok
     /\ pre.primary.kind \in {"garbage", "nonobject"}
     /\ pre.backup.kind = "object")
    => LET doc == ValidateSaveData(pre.backup.doc, slot) IN
       /\ DOMAIN ret.val = DOMAIN doc
       /\ \A k \in DOMAIN doc \ {"last_played"} : ret.val[k] = doc[k]
       /\ ret.val["last_played"] = IsoV(now - 1)
       /\ \/ primary = Obj(ret.val)
          \/ fault /\ primary = pre.primary

\* a primary that is not JSON, healed from the backup with no fault
C2_Healed ==
    /\ ret.op = "load" /\ ret.ok
    /\ pre.primary.kind = "garbage"
    /\ pre.backup.kind = "object"
    /\ ~fault
    /\ primary = Obj(ret.val)
    /\ ret.val["last_played"] # ValidateSaveData(pre.backup.doc, slot)["last_played"]

\* C2 as stated: load returns the backup's document (as load validates a
\* document) and the primary holds that same document when it returns.
C2_AsStated ==
    (/\ ret.op = "load" /\ ret.ok
     /\ pre.primary.kind \in {"garbage", "nonobject"}
     /\ pre.backup.kind = "object")
    => /\ ret.val = ValidateSaveData(pre.backup.doc, slot)
       /\ primary = Obj(ret.val)

\* C3, as the code has it: after save(slot, r) returned True, load(slot)
\* returns a record with slot = the slot argument, last_played = the
\* save's stamp, every field absent from r as the template has it, and
\* every other field of r as JSON carries it (a tuple is an array) when it
\* has the type the data model gives it; a list field, total_play_time or
\* current_monument of another type comes back as the template's value,
\* and mastered_characters comes back with each script that is missing or
\* not a dict set to an empty dict.
C3_SaveLoadRoundTrip ==
    (ret.op = "load" /\ arg # NoRec)
    => LET out == ret.val
           template == DefaultSaveData(slot)
           stamped == {"slot", "last_played"}
           coerced == ListKeys \cup {"total_play_time", "current_monument"}
           typed(k, v) ==
               CASE k \in ListKeys -> IsList(v)
                 [] k = "total_play_time" -> IsNumber(v)
                 [] k = "current_monument" -> IsInt(v)
                 [] OTHER -> TRUE
       IN  /\ ret.ok
           /\ DOMAIN out = DOMAIN arg \cup DOMAIN template
           /\ out["slot"] = slot
           /\ out["last_played"] = IsoV(now - 1)
           /\ \A k \in DOMAIN template \ (DOMAIN arg \cup stamped) :
                out[k] = template[k]
           /\ \A k \in DOMAIN arg \ (stamped \cup {"mastered_characters"}) :
                out[k] = IF typed(k, JsonValue(arg[k]))
                         THEN JsonValue(arg[k]) ELSE template[k]
           /\ "mastered_characters" \in DOMAIN arg =>
                LET mc == JsonValue(arg["mastered_characters"])
                    got == out["mastered_characters"]
                IN  IF ~IsDict(mc) THEN got = template["mastered_characters"]
                    ELSE /\ IsDict(got)
                         /\ DOMAIN got.sub = DOMAIN mc.sub \cup Scripts
                         /\ \A sc \in DOMAIN got.sub :
                              got.sub[sc] =
                                IF sc \in DOMAIN mc.sub
                                   /\ (sc \notin Scripts \/ IsDict(mc.sub[sc]))
                                THEN mc.sub[sc] ELSE DictV(EmptyMap)

\* a record with fields of other types saved and loaded back: the string
\* in current_monument came back 0, the name came back as it was
C3_CoercedOnLoad ==
    /\ ret.op = "load" /\ ret.ok /\ arg # NoRec
    /\ "current_monument" \in DOMAIN arg
    /\ arg["current_monument"] = StrV("3")
    /\ ret.val["current_monument"] = IntV(0)
    /\ ret.val["player_name"] = arg["player_name"]

\* C3 as stated: the loaded record equals r in every field r has, except
\* last_played (and slot, which is the slot argument); the fields r lacks
\* are the template's.
C3_AsStated ==
    (ret.op = "load" /\ arg # NoRec)
    => /\ ret.ok
       /\ ret.val["slot"] = slot
       /\ \A k \in DOMAIN arg \ {"slot", "last_played"} : ret.val[k] = arg[k]
       /\ \A k \in DOMAIN DefaultSaveData(slot) \ DOMAIN arg :
            k \notin {"slot", "last_played"} =>
              ret.val[k] = DefaultSaveData(slot)[k]

(***************************************************************************)
(* SRSItem.record_answer's properties.                                     *)
(***************************************************************************)
\* C4: after every record_answer call, correct or not, with any threshold,
\* the stage lies between NEW and MASTERED and total_correct is at most
\* total_attempts.
C4_StageAndCountsBounded ==
    /\ item.stage >= Stage_NEW
    /\ item.stage <= Stage_MASTERED
    /\ item.total_correct <= item.total_attempts

\* a correct answer on a mastered item that has also missed before
C4_CorrectAtMastered ==
    /\ call.n >= 1 /\ call.correct
    /\ call.before.stage = Stage_MASTERED
    /\ item.stage = Stage_MASTERED
    /\ item.total_correct < item.total_attempts

\* C5, as the code has it: after a run of n correct answers on a fresh
\* item with one threshold k, the stage is min(MASTERED, n div k) and the
\* streak is n mod k up to the third promotion and n - 3k after it.  For
\* k >= 2 that is the claim: fewer than k answers leave the stage NEW, the
\* k-th promotes with the streak at 0, the (k+1)-th leaves the stage with
\* the streak at 1.  For k = 1 every answer promotes until MASTERED.
C5_PromotionRuns ==
    run >= 1
    => LET k == call.k
           promotions == IF run \div k < Stage_MASTERED THEN run \div k
                         ELSE Stage_MASTERED
       IN  /\ item.stage = promotions
           /\ item.consecutive_correct =
                IF run <= Stage_MASTERED * k THEN run % k
                ELSE run - Stage_MASTERED * k
           /\ k >= 2 =>
                /\ run < k => item.stage = Stage_NEW
                /\ run = k => /\ item.stage = Stage_LEARNING
                              /\ item.consecutive_correct = 0
                /\ run = k + 1 => /\ item.stage = Stage_LEARNING
                                  /\ item.consecutive_correct = 1

\* nine correct answers with threshold 3 have taken a fresh item to MASTERED
C5_MasteredByRuns ==
    /\ run = 3 * call.k
    /\ call.k = 3
    /\ item.stage = Stage_MASTERED
    /\ item.consecutive_correct = 0

\* C5 as stated, for every threshold: fewer than k correct answers leave
\* the stage NEW, the k-th promotes one stage with the streak at 0, and the
\* (k+1)-th leaves the stage unchanged with the streak at 1.
C5_AsStated ==
    run >= 1
    => LET k == call.k IN
       /\ run < k => item.stage = Stage_NEW
       /\ run = k => /\ item.stage = Stage_LEARNING
                     /\ item.consecutive_correct = 0
       /\ run = k + 1 => /\ item.stage = Stage_LEARNING
                         /\ item.consecutive_correct = 1

\* C6: an incorrect answer lowers the stage by one, or leaves it NEW,
\* sets the streak to 0, adds one to total_attempts and leaves
\* total_correct as it was.
C6_IncorrectDemotes ==
    (call.n >= 1 /\ ~call.correct)
    => /\ item.stage = IF call.before.stage = Stage_NEW THEN Stage_NEW
                       ELSE call.before.stage - 1
       /\ item.consecutive_correct = 0
       /\ item.total_attempts = call.before.total_attempts + 1
       /\ item.total_correct = call.before.total_correct

\* a miss on an item in REVIEW with a streak of two
C6_MissInReview ==
    /\ call.n >= 1 /\ ~call.correct
    /\ call.before.stage = Stage_REVIEW
    /\ call.before.consecutive_correct = 2
    /\ item.stage = Stage_LEARNING

C8_LevelInverse ==
    xpOut.op = "level"
    => /\ xpOut.at = xpOut.n
       /\ xpOut.n >= 2 => xpOut.below = xpOut.n - 1

\* the top of the curve: level 100 and the XP just below it
C8_AtMaxLevel ==
    /\ xpOut.op = "level"
    /\ xpOut.n = MAX_PLAYER_LEVEL
    /\ xpOut.at = MAX_PLAYER_LEVEL
    /\ xpOut.below = MAX_PLAYER_LEVEL - 1

\* C9: after award_xp the stored player_level is level_from_xp of the
\* stored player_xp, player_xp is its value before the call (0 when the
\* record had none) plus xp_gained, and the returned level and
\* new_total_xp are the stored values.
C9_StoredLevelFromXp ==
    xpOut.op = "award"
    => /\ xpData["player_level"] = IntV(LevelFromXp(xpData["player_xp"].v))
       /\ xpData["player_xp"] =
            IntV((IF "player_xp" \in DOMAIN xpOut.before
                  THEN xpOut.before["player_xp"].v ELSE 0) + xpOut.xp_gained)
       /\ xpOut.level = xpData["player_level"].v
       /\ xpOut.new_total_xp = xpData["player_xp"].v

\* XP awarded to a record that had no player_xp, taking it past level 1
C9_FirstAward ==
    /\ xpOut.op = "award"
    /\ "player_xp" \notin DOMAIN xpOut.before
    /\ xpOut.xp_gained > 0
    /\ xpOut.level > 1

\* C10 as stated: after award_xp the stored player_level is at least the
\* player_level the record held before the call (1 when it had none), and
\* leveled_up is true exactly when it is greater.
C10_AsStated ==
    xpOut.op = "award"
    => LET before == IF "player_level" \in DOMAIN xpOut.before
                     THEN xpOut.before["player_level"].v ELSE 1
       IN  /\ xpData["player_level"].v >= before
           /\ xpOut.leveled_up = (xpData["player_level"].v > before)

(***************************************************************************)
(* The progress helpers' properties.                                       *)
(***************************************************************************)
\* C11: under complete_lesson, complete_minigame, learn_vocabulary and
\* learn_grammar on a record whose lists start without duplicates, no id
\* occurs twice in a list; a call with an id already in its list leaves
\* the record as it was; every list of the record before a call is a
\* prefix of that list after it (nothing removed, nothing reordered); and
\* with no record loaded a call changes nothing.
C11_AppendOnce ==
    /\ gmSave # NoRec =>
         \A k \in DOMAIN gmSave :
           \A i, j \in 1..Len(gmSave[k]) :
             gmSave[k][i] = gmSave[k][j] => i = j
    /\ gmOut.op = "mark" =>
         IF gmOut.before = NoRec THEN gmSave = NoRec
         ELSE LET b == gmOut.before IN
              /\ gmSave # NoRec
              /\ DOMAIN gmSave = DOMAIN b \cup {gmOut.key}
              /\ \A k \in DOMAIN b :
                   /\ Len(gmSave[k]) >= Len(b[k])
                   /\ SubSeq(gmSave[k], 1, Len(b[k])) = b[k]
                   /\ k # gmOut.key => gmSave[k] = b[k]
              /\ (gmOut.key \in DOMAIN b
                  /\ \E i \in 1..Len(b[gmOut.key]) : b[gmOut.key][i] = gmOut.id)
                 => gmSave = b

\* a lesson marked a second time, behind another, and nothing changed
C11_MarkedTwice ==
    /\ gmOut.op = "mark" /\ gmOut.key = "completed_lessons"
    /\ gmOut.before # NoRec
    /\ Len(gmOut.before["completed_lessons"]) = 2
    /\ gmOut.before["completed_lessons"][1] = gmOut.id
    /\ gmSave = gmOut.before

(***************************************************************************)
(* get_due_items' properties.                                              *)
(***************************************************************************)
\* C12: get_due_items(script, limit) returns items of that script only,
\* each of them due (stage new, or the clock at or past its next_review),
\* each once, in ascending order of next_review; it returns limit of them
\* when more than limit are due and all of them otherwise; and no due
\* item left out has a smaller next_review than one returned.
C12_DueItems ==
    dueOut.op = "due"
    => LET got == dueOut.items
           stored == IF dueOut.script \in DOMAIN chars
                     THEN chars[dueOut.script] ELSE <<>>
           dueIx == {i \in 1..Len(stored) :
                       /\ stored[i].info.t = "dict"
                       /\ LET it == FromDict(stored[i].id, stored[i].info)
                          IN  it.stage = Stage_NEW
                              \/ dueOut.at >= it.next_review}
           entry(i) == FromDict(stored[i].id, stored[i].info)
       IN  /\ \A n \in 1..Len(got) : \E i \in dueIx : got[n] = entry(i)
           /\ \A n, m \in 1..Len(got) :
                /\ n < m => got[n].next_review <= got[m].next_review
                /\ got[n].item_id = got[m].item_id => n = m
           /\ Len(got) = IF Cardinality(dueIx) > dueOut.limit
                         THEN dueOut.limit ELSE Cardinality(dueIx)
           /\ \A i \in dueIx :
                (\A n \in 1..Len(got) : got[n] # entry(i))
                => \A n \in 1..Len(got) :
                     got[n].next_review <= entry(i).next_review

\* five items due and two asked for: the two with the smallest
\* next_review came back, a new item whose next_review lies ahead left out
C12_MoreDueThanLimit ==
    /\ dueOut.op = "due" /\ dueOut.script = "hiragana" /\ dueOut.limit = 2
    /\ dueOut.at = 2
    /\ Len(dueOut.items) = 2
    /\ dueOut.items[1].item_id = "e"
    /\ dueOut.items[2].next_review = 1
    /\ Len(chars["hiragana"]) = 6

(***************************************************************************)
(* C13: transition_to(s) while the current state is s changes nothing:     *)
(* the previous state and the pause accounting stay as they were and no    *)
(* callback is invoked.  transition_to(s) from a # s ends in s with a as   *)
(* the previous state, and a return_to_previous_state that follows it at   *)
(* once ends in a with s as the previous state.                            *)
(***************************************************************************)
C13_TransitionTo ==
    /\ (gsOut.op = "transition" /\ gsOut.to = gsOut.before.cur)
         => (gs = gsOut.before /\ gsOut.fired = <<>>)
    /\ (gsOut.op = "transition" /\ gsOut.to # gsOut.before.cur)
         => (gs.cur = gsOut.to /\ gs.prev = gsOut.before.cur)
    /\ (gsOut.op = "return" /\ gsOut.after.op = "transition"
                            /\ gsOut.after.from # gsOut.after.to)
         => (gs.cur = gsOut.after.from /\ gs.prev = gsOut.after.to)

\* the game was paused from the overworld and has just come back
C13_BackFromPause ==
    /\ gsOut.op = "return"
    /\ gsOut.after = [op |-> "transition", from |-> "OVERWORLD", to |-> "PAUSED"]
    /\ gs.cur = "OVERWORLD"
    /\ Len(gsOut.fired) > 0

(***************************************************************************)
(* C14: when a callback registered for s raises while transition_to(s)     *)
(* runs, nothing propagates to the caller, the state machine ends in s     *)
(* with the old state as previous state, and every callback registered     *)
(* for s is invoked, in the order of registration.                         *)
(***************************************************************************)
C14_CallbackRaises ==
    (/\ gsOut.op \in {"transition", "return"}
     /\ gsOut.to # NoState
     /\ gsOut.to # gsOut.before.cur)
    => /\ ~gsOut.propagated
       /\ gs.cur = gsOut.to
       /\ gs.prev = gsOut.before.cur
       /\ Len(gsOut.fired) = Len(cbs[gsOut.to])
       /\ \A i \in 1..Len(gsOut.fired) : gsOut.fired[i].cb = cbs[gsOut.to][i]

\* the first of two callbacks raised and the second was still invoked
C14_SecondStillInvoked ==
    /\ gsOut.op = "transition"
    /\ gsOut.to = "PAUSED"
    /\ Len(gsOut.fired) = 2
    /\ gsOut.fired[1] = [cb |-> "c2", raised |-> TRUE]
    /\ gsOut.fired[2] = [cb |-> "c1", raised |-> FALSE]
    /\ gs.cur = "PAUSED"

(***************************************************************************)
(* C15: whatever transitions, loads and flushes came before, what          *)
(* get_session_play_time returns is the wall-clock time since the session  *)
(* began (the last load_save_data or flush) during which the state was     *)
(* not PAUSED.  The code does not keep this: a load or a flush while the   *)
(* game is paused leaves _session_paused_at standing, and the resume then  *)
(* subtracts the whole pause, the part before the session began included.  *)
(***************************************************************************)
C15_AsStated ==
    (gsOut.op = "session_time" /\ gsOut.at = clock)
        => gsOut.value = played.session

(***************************************************************************)
(* C16: repeated flushes count no interval twice: a flush never lowers     *)
(* total_play_time, and total_play_time minus its value at load never      *)
(* exceeds the time not paused that has passed since the load.             *)
(***************************************************************************)
C16_NoDoubleCount ==
    /\ gsOut.op = "flush" => SavedPlayTime(gmSave) >= gsOut.total_before
    /\ gmSave # NoRec
         => SavedPlayTime(gmSave) - played.at_load <= played.record

\* a second flush, after play and a pause went by since the load
C16_SecondFlush ==
    /\ gsOut.op = "flush"
    /\ gsOut.loaded
    /\ gsOut.total_before > played.at_load
    /\ SavedPlayTime(gmSave) > gsOut.total_before
    /\ gsOut.before.acc_pause > 0

(***************************************************************************)
(* C17: for a valid slot no operation of the save store raises on an I/O   *)
(* failure: save returns False when making the save directory, writing     *)
(* the temp file or replacing the primary fails, and leaves no temp file   *)
(* behind; load returns None or the backup's record when opening or        *)
(* reading fails.  The code does not keep this: os.makedirs is called      *)
(* outside the try block, load_game does not catch OSError, and a temp     *)
(* file that os.remove cannot remove stays.                                *)
(***************************************************************************)
C17_AsStated ==
    /\ ret.op # "raised"
    /\ (ret.op = "save" /\ ~ret.ok) => tmp = Absent

(***************************************************************************)
(* C19: every record load returns holds every field of the save record,    *)
(* player_xp and player_level included, whatever subset of them the file   *)
(* held.  The code does not keep this: the template the validator fills    *)
(* from has neither player_xp nor player_level.                            *)
(***************************************************************************)
C19_AsStated ==
    (ret.op = "load" /\ ret.ok)
    => {"slot", "player_name", "character_appearance", "current_monument",
        "completed_lessons", "completed_minigames", "mastered_characters",
        "vocabulary_learned", "grammar_learned", "total_play_time",
        "last_played", "difficulty", "player_xp", "player_level"}
           \subseteq DOMAIN ret.val

(***************************************************************************)
(* C20: 0 <= current_monument < TOTAL_MONUMENTS in every record load       *)
(* returns, whatever integer the file holds.  The code does not keep       *)
(* this: the validator looks at the type of the field only.                *)
(***************************************************************************)
C20_AsStated ==
    (ret.op = "load" /\ ret.ok)
    => /\ IsInt(ret.val["current_monument"])
       /\ ret.val["current_monument"].v >= 0
       /\ ret.val["current_monument"].v < TOTAL_MONUMENTS

(***************************************************************************)
(* C18: save, load, delete, exists and create each raise a validation      *)
(* error when the slot is not an integer in 1..6, and they do so before    *)
(* any file is created, modified or removed and before the record handed   *)
(* to save is changed.                                                     *)
(***************************************************************************)
C18_InvalidSlotRaises ==
    slot \notin {IntV(n) : n \in 1..6}
    => /\ ret = NoRet \/ (ret.op = "raised" /\ ret.exc = "ValueError")
       /\ pc = "idle"
       /\ primary = pre.primary /\ backup = pre.backup /\ tmp = Absent
       /\ (ret.op = "raised" /\ ret.fn = "save_game") => data = arg

\* save_game was called with slot 7 while a save of that name lay on disk
C18_SaveToSlotSeven ==
    /\ slot = IntV(MAX_SAVE_SLOTS + 1)
    /\ ret = Raised("save_game", "ValueError")
    /\ primary.kind = "object"
    /\ arg # NoRec /\ data = arg

(***************************************************************************)
(* C21: load returns None exactly when neither the primary nor the backup  *)
(* is a JSON object (each is absent, not JSON, or JSON of another kind).   *)
(* When the primary is an object load returns the primary's document,      *)
(* otherwise the backup's, with missing and wrong-typed fields repaired:   *)
(* every field of the template is there, the four lists are lists, the    *)
(* two numbers are numbers and the three scripts are dicts.                *)
(***************************************************************************)
C21_NoneOnlyWithoutObject ==
    ret.op = "load"
    => LET from == IF pre.primary.kind = "object" THEN pre.primary
                   ELSE pre.backup
       IN  /\ ~ret.ok <=> (pre.primary.kind # "object"
                           /\ pre.backup.kind # "object")
           /\ ~ret.ok => ret.val = NoRec
           /\ ret.ok =>
                /\ DOMAIN ret.val =
                       DOMAIN from.doc \cup DOMAIN DefaultSaveData(slot)
                /\ \A k \in DOMAIN from.doc \ (DOMAIN DefaultSaveData(slot)) :
                       ret.val[k] = from.doc[k]
                /\ ret.val["player_name"] = from.doc["player_name"]
                /\ \A k \in ListKeys : IsList(ret.val[k])
                /\ IsNumber(ret.val["total_play_time"])
                /\ IsInt(ret.val["current_monument"])
                /\ IsDict(ret.val["mastered_characters"])
                /\ \A sc \in Scripts :
                       IsDict(ret.val["mastered_characters"].sub[sc])

\* a primary that is not JSON and a backup of an older schema: the
\* backup's three fields came back among the template's
C21_OldSchemaBackup ==
    /\ ret.op = "load" /\ ret.ok
    /\ pre.primary.kind = "garbage"
    /\ pre.backup.kind = "object"
    /\ "difficulty" \notin DOMAIN pre.backup.doc
    /\ ret.val["difficulty"] = StrV(DEFAULT_DIFFICULTY)
    /\ ret.val["player_xp"] = pre.backup.doc["player_xp"]

(***************************************************************************)
(* C22: the temp file is never the only file of the slot on disk:          *)
(* wherever the temp file exists, the primary or the backup exists too,    *)
(* the first save into an empty slot included.  The code does not keep     *)
(* this: the first save opens the temp file while the slot is empty.       *)
(***************************************************************************)
C22_AsStated ==
    IsFile(tmp) => (IsFile(primary) \/ IsFile(backup))

(***************************************************************************)
(* C27: the last good copy of a slot is never destroyed: when the primary  *)
(* or the backup held a valid document as a save, or a load with its       *)
(* healing save, began, one of the two holds a valid document at every     *)
(* step of it and so after a crash.  The code does not keep this: the      *)
(* backup is overwritten with whatever the primary holds, a corrupt        *)
(* primary included, before the new primary is in place.                   *)
(***************************************************************************)
C27_AsStated ==
    (pre.primary.kind = "object" \/ pre.backup.kind = "object")
    => (primary.kind = "object" \/ backup.kind = "object")

(***************************************************************************)
(* C28: after load has restored a corrupt primary from a valid backup the  *)
(* backup still holds a valid document.  The code does not keep this: the  *)
(* healing save copies the corrupt primary over the backup.                *)
(***************************************************************************)
C28_AsStated ==
    (/\ ret.op = "load" /\ ret.ok
     /\ pre.primary.kind \in {"garbage", "nonobject"}
     /\ pre.backup.kind = "object")
    => backup.kind = "object"

(***************************************************************************)
(* C25: after every record_answer executed at time now, last_reviewed is   *)
(* now and next_review is now + H * 3600 * multiplier, H being 0, 4, 24    *)
(* or 168 hours for the stage the answer left the item at.  An item left   *)
(* at new has next_review = now; an item left above new is not due before  *)
(* that interval has gone by and is due from then on.                      *)
(***************************************************************************)
C25_NextReviewFromNewStage ==
    call.n > 0
    => LET hours == IF item.stage = 0 THEN 0
                    ELSE IF item.stage = 1 THEN 4
                    ELSE IF item.stage = 2 THEN 24 ELSE 168
           interval == hours * 360 * call.mult
       IN  /\ item.last_reviewed = call.at
           /\ item.next_review = call.at + interval
           /\ item.stage = 0 => item.next_review = call.at
           /\ item.stage > 0 =>
                /\ ~IsDueForReview(item, call.at)
                /\ ~IsDueForReview(item, call.at + interval - 1)
                /\ IsDueForReview(item, call.at + interval)

\* a miss took the item from mastered down to review an hour after the
\* answer before: the next review is a day times 1.3 away, not a week
C25_DemotedFromMastered ==
    /\ call.n > 0 /\ ~call.correct
    /\ call.before.stage = Stage_MASTERED
    /\ item.stage = Stage_REVIEW
    /\ call.mult = 13
    /\ call.at > call.before.last_reviewed
    /\ item.next_review = call.at + 112320

(***************************************************************************)
(* C29: with one threshold k >= 1 used in every call on a fresh item, the  *)
(* streak counter is below k whenever the stage is below mastered; it      *)
(* reaches k or more at mastered only, where a correct answer adds one to  *)
(* it and resets nothing.                                                  *)
(***************************************************************************)
C29_StreakBelowThreshold ==
    (call.n > 0 /\ call.fixed)
    => /\ item.stage < Stage_MASTERED => item.consecutive_correct < call.k
       /\ (call.correct /\ call.before.stage = Stage_MASTERED)
            => /\ item.stage = Stage_MASTERED
               /\ item.consecutive_correct =
                      call.before.consecutive_correct + 1

\* at mastered the streak has grown past the threshold of 2
C29_StreakPastThreshold ==
    /\ call.fixed /\ call.k = 2
    /\ item.stage = Stage_MASTERED
    /\ item.consecutive_correct > call.k

RecommendFollowsPriority ==
    (gmOut.op = "recommend" /\ GetCurrent(gmOut.save) \in DOMAIN MONUMENTS)
    => LET save == gmOut.save
           r == gmOut.result
           current == GetCurrent(save)
           category == MONUMENTS[current].category
           hasDue(script) == DueOf(gmOut.mc, script, gmOut.at) # <<>>
           lessonOpen == \E n \in 1..5 :
               ~Contains(save.completed_lessons, LessonId(category, n))
           minigameOpen == \E n \in 1..3 :
               ~Contains(save.completed_minigames, MinigameId(category, n))
       IN  IF hasDue("hiragana")
           THEN r = [type |-> "review", category |-> <<"hiragana">>,
                     monument_id |-> current]
           ELSE IF hasDue("katakana")
           THEN r = [type |-> "review", category |-> <<"katakana">>,
                     monument_id |-> current]
           ELSE IF hasDue("kanji")
           THEN r = [type |-> "review", category |-> <<"kanji">>,
                     monument_id |-> current]
           ELSE IF lessonOpen
           THEN r = [type |-> "lesson", category |-> category,
                     monument_id |-> current]
           ELSE IF minigameOpen
           THEN r = [type |-> "minigame", category |-> category,
                     monument_id |-> current]
           ELSE IF current + 1 < 13
           THEN r.type = "new_monument" /\ r.monument_id = current + 1
           ELSE r = NoRecommendation

(***************************************************************************)
(* C23: on every record recommend_next_lesson returns a recommendation or  *)
(* None, in the priority order: review of the first script with a due      *)
(* item, else lesson, else minigame, else new_monument for                 *)
(* current_monument + 1 below 13, else None.  The code does not do so on   *)
(* every record: with a current_monument that names no monument it raises  *)
(* KeyError on line 538, before it looks at anything.                      *)
(***************************************************************************)
C23_AsStated ==
    gmOut.op = "recommend"
    => /\ gmOut.result.type \in
              {"review", "lesson", "minigame", "new_monument", "None"}
       /\ RecommendFollowsPriority

(***************************************************************************)
(* C24: whenever recommend_next_lesson returns new_monument for a          *)
(* monument, is_monument_unlocked of that monument is true for a           *)
(* GameManager that holds the same record.                                 *)
(***************************************************************************)
C24_NewMonumentIsUnlocked ==
    (gmOut.op = "recommend" /\ gmOut.result.type = "new_monument")
    => IsMonumentUnlocked(gmOut.save, gmOut.result.monument_id)

\* monument 1 is recommended once the last hiragana lesson and the last
\* hiragana minigame were completed in this run
C24_AdvanceAfterLastMinigame ==
    /\ gmOut.op = "recommend" /\ gmOut.result.type = "new_monument"
    /\ gmOut.result.monument_id = 1
    /\ gmOut.save.completed_lessons[5] = LessonId(<<"hiragana">>, 1)
    /\ gmOut.save.completed_minigames[3] = MinigameId(<<"hiragana">>, 3)

(***************************************************************************)
(* C26: for every record and every monument id the completion percentage   *)
(* lies in 0..100 (0..1000 tenths); each of the lesson, minigame and       *)
(* mastery fractions counts as 1 at most, so the three terms are at most   *)
(* 30, 30 and 40; and for a monument whose category is not hiragana,       *)
(* katakana or a kanji category the result is 60 at most, however many     *)
(* lessons and minigames are completed.                                    *)
(***************************************************************************)
C26_CompletionClamped ==
    gmOut.op = "completion"
    => LET mid == gmOut.monument_id
           value == gmOut.value
       IN  /\ value \in 0..1000
           /\ mid \notin 0..12 => value = 0
           /\ mid \in 0..12 =>
                LET category == MONUMENTS[mid].category
                    lessons ==
                        CountPrefixed(gmOut.save.completed_lessons, category)
                    minigames ==
                        CountPrefixed(gmOut.save.completed_minigames,
                                      category)
                    mastered == MasteredCount(gmOut.mc, category)
                    expected == ExpectedMasteryCount(category)
                    character == \/ category \in {<<"hiragana">>,
                                                  <<"katakana">>}
                                 \/ category[1] = "kanji"
                    lessonTerm == IF lessons >= 5 THEN 300 ELSE 60 * lessons
                    minigameTerm ==
                        IF minigames >= 3 THEN 300 ELSE 100 * minigames
                    masteryTerm ==
                        IF ~character THEN 0
                        ELSE IF mastered >= expected THEN 400
                        ELSE RoundDiv(400 * mastered, expected)
                IN  /\ value = lessonTerm + minigameTerm + masteryTerm
                    /\ ~character => value <= 600

\* grammar_basic with six lessons and four minigames completed stands at 60
C26_SixtyWithMoreThanExpected ==
    /\ gmOut.op = "completion" /\ gmOut.monument_id = 2
    /\ CountPrefixed(gmOut.save.completed_lessons, <<"grammar", "basic">>) > 5
    /\ CountPrefixed(gmOut.save.completed_minigames,
                     <<"grammar", "basic">>) > 3
    /\ gmOut.value = 600

\* hiragana with more mastered characters than are expected stands at 100
CompletionFullWithMoreMastered ==
    /\ gmOut.op = "completion" /\ gmOut.monument_id = 0
    /\ MasteredCount(gmOut.mc, <<"hiragana">>)
           > ExpectedMasteryCount(<<"hiragana">>)
    /\ gmOut.value = 1000

====
